---------------------------- MODULE Spec2Model ----------------------------
(***************************************************************************)
(* A model of the retrieval engine of local-vector-store: the FAISS-backed *)
(* Dense-Index store (backend/app/vector_stores/faiss_store.py), the       *)
(* StoreManager registry (vector_stores/factory.py), the BM25 keyword      *)
(* cache (search/keyword_search.py) and the document / collection routes   *)
(* that drive them (api/routes/documents.py, collections.py, search.py).   *)
(*                                                                         *)
(* Python values are modelled as tagged records [t, v]; a dict is the      *)
(* ordered sequence of its [key, val] entries, as CPython keeps it.        *)
(* An optional value (a file that may not exist) is a sequence of length   *)
(* 0 or 1.                                                                 *)
(***************************************************************************)
EXTENDS Naturals, Integers, Sequences, FiniteSets, TLC

\* Bounds of the model.
MaxVectors == 3
MaxBatch == 2
MaxTopK == 2

\* The values the inputs are drawn from.
Collections == {"docs", "tmp"}
DocIds == {"a", "b"}
\* A text is the sequence of its lowercase words.
Texts == {<<"the", "cat">>, <<"a", "dog">>}
RawVectors == {<<2, 0>>, <<0, 1>>}
QueryVectors == {<<1, 0>>, <<0, 3>>, <<-1, 0>>}

Some(x) == <<x>>
Nothing == << >>

---------------------------------------------------------------------------
\* Python values.

IntV(n) == [t |-> "int", v |-> n]
StrV(s) == [t |-> "str", v |-> s]
NoneV == [t |-> "none", v |-> 0]
ListV(l) == [t |-> "list", v |-> l]
DictV(entries) == [t |-> "dict", v |-> entries]
Entry(k, x) == [key |-> k, val |-> x]

\* d.get(key): the value of the first entry with that key, None if absent.
DictHas(entries, k) == \E i \in 1..Len(entries) : entries[i].key = k
DictGet(entries, k) ==
  IF DictHas(entries, k)
  THEN entries[CHOOSE i \in 1..Len(entries) : entries[i].key = k].val
  ELSE NoneV

\* A dict held as a TLA+ function: d[k] = v, del d[k], d.pop(k, None).
Put(f, k, x) == [y \in (DOMAIN f) \cup {k} |-> IF y = k THEN x ELSE f[y]]
Del(f, k) == [y \in (DOMAIN f) \ {k} |-> f[y]]
EmptyDict == << >>

\* x in target (target a list), x in value (value a str: substring; the
\* model's strings are atoms, so a substring is the string itself).
PyIn(x, l) == l.t = "list" /\ \E i \in 1..Len(l.v) : l.v[i] = x
PyLt(a, b) == a.t = "int" /\ b.t = "int" /\ a.v < b.v
PyLe(a, b) == a.t = "int" /\ b.t = "int" /\ a.v <= b.v

\* One operator of a field's operator-dict: TRUE when the condition FAILS
\* (the branch returns False), as in FAISSVectorStore._matches_filter.
OpFails(op, value, target) ==
  \/ op = "$eq" /\ value # target
  \/ op = "$ne" /\ value = target
  \/ op = "$gt" /\ (value = NoneV \/ PyLe(value, target))
  \/ op = "$gte" /\ (value = NoneV \/ PyLt(value, target))
  \/ op = "$lt" /\ (value = NoneV \/ ~PyLt(value, target))
  \/ op = "$lte" /\ (value = NoneV \/ ~PyLe(value, target))
  \/ op = "$in" /\ ~PyIn(value, target)
  \/ op = "$nin" /\ PyIn(value, target)
  \/ op = "$contains" /\ value.t = "str" /\ target # value
  \/ op = "$contains" /\ value.t = "list" /\ ~PyIn(target, value)

RECURSIVE _matches_filter(_, _)
\* FAISSVectorStore._matches_filter(metadata, filters): both are dicts given
\* as entry sequences.  The loop returns at the first compound key.
_matches_filter(metadata, filters) ==
  IF Len(filters) = 0 THEN TRUE
  ELSE LET key == Head(filters).key
           condition == Head(filters).val
           value == DictGet(metadata, key)
       IN  IF key = "$and"
           THEN \A i \in 1..Len(condition.v) : _matches_filter(metadata, condition.v[i].v)
           ELSE IF key = "$or"
           THEN \E i \in 1..Len(condition.v) : _matches_filter(metadata, condition.v[i].v)
           ELSE IF key = "$not"
           THEN ~_matches_filter(metadata, condition.v)
           ELSE IF condition.t = "dict"
           THEN IF \E i \in 1..Len(condition.v) : OpFails(condition.v[i].key, value, condition.v[i].val)
                THEN FALSE
                ELSE _matches_filter(metadata, Tail(filters))
           ELSE IF value # condition
                THEN FALSE
                ELSE _matches_filter(metadata, Tail(filters))

Metadatas == {<<Entry("tag", IntV(1))>>, <<Entry("tag", IntV(2))>>}
\* Filters: {}, {"tag": 1}, {"tag": {"$ne": 1}}, {"$not": {"tag": 2}}.
Filters ==
  { << >>,
    <<Entry("tag", IntV(1))>>,
    <<Entry("tag", DictV(<<Entry("$ne", IntV(1))>>))>>,
    <<Entry("$not", DictV(<<Entry("tag", IntV(2))>>))>> }

---------------------------------------------------------------------------
\* Vectors.  The model's vectors are axis-aligned, so the L2 norm is the
\* absolute value of the one non-zero coordinate.

Abs(n) == IF n < 0 THEN -n ELSE n
L2Norm(vec) == Abs(vec[1]) + Abs(vec[2])
normalize_L2(vec) ==
  IF L2Norm(vec) = 0 THEN vec
  ELSE <<vec[1] \div L2Norm(vec), vec[2] \div L2Norm(vec)>>
InnerProduct(x, y) == x[1] * y[1] + x[2] * y[2]

\* faiss.IndexFlatIP: the vectors in insertion order; position p (from 0) is
\* index[p + 1].
_create_index == << >>
ntotal(index) == Len(index)

RECURSIVE TopPositions(_, _, _)
\* The k best positions of cands by inner product with q, best first; equal
\* products in position order.
TopPositions(index, q, cands) ==
  IF cands = {} THEN << >>
  ELSE LET best == CHOOSE p \in cands : \A r \in cands :
                     \/ InnerProduct(index[p + 1], q) > InnerProduct(index[r + 1], q)
                     \/ /\ InnerProduct(index[p + 1], q) = InnerProduct(index[r + 1], q)
                        /\ p <= r
       IN  <<best>> \o TopPositions(index, q, cands \ {best})

\* index.search(query_vec, k): the positions and their inner products.
index_search(index, q, k) ==
  LET all == TopPositions(index, q, 0..(Len(index) - 1))
  IN  [i \in 1..k |-> [idx |-> all[i], ip |-> InnerProduct(index[all[i] + 1], q)]]

---------------------------------------------------------------------------
\* The store's document table, an ordered dict id -> {text, metadata}.

HasDoc(documents, id) == \E i \in 1..Len(documents) : documents[i].id = id
DocAt(documents, id) == documents[CHOOSE i \in 1..Len(documents) : documents[i].id = id]
SetDoc(documents, doc) ==
  IF HasDoc(documents, doc.id)
  THEN [i \in 1..Len(documents) |-> IF documents[i].id = doc.id THEN doc ELSE documents[i]]
  ELSE Append(documents, doc)
DelDoc(documents, id) == SelectSeq(documents, LAMBDA d : d.id # id)
DocIdsOf(documents) == {documents[i].id : i \in 1..Len(documents)}


---------------------------------------------------------------------------
\* json.dump / json.load of the mapping file: the int keys of _idx_to_id are
\* written as decimal strings and parsed back.

Digits == <<"0", "1", "2", "3", "4", "5", "6", "7", "8", "9">>
IntToStr(k) == Digits[k + 1]
StrToInt(s) == (CHOOSE i \in 1..Len(Digits) : Digits[i] = s) - 1
KeysToStr(f) == [s \in {IntToStr(k) : k \in DOMAIN f} |-> f[StrToInt(s)]]
KeysToInt(f) == [k \in {StrToInt(s) : s \in DOMAIN f} |-> f[IntToStr(k)]]

---------------------------------------------------------------------------
\* FAISSVectorStore.  A store object is the record of its fields; the two
\* files of its collection directory are the record
\* [index_faiss, metadata_json], each an optional value.

NoFiles == [index_faiss |-> Nothing, metadata_json |-> Nothing]

EmptyStore ==
  [_documents |-> << >>, _id_to_idx |-> EmptyDict, _idx_to_id |-> EmptyDict,
   _next_idx |-> 0, index |-> _create_index]

\* persist(): index.faiss is written only when the index holds a vector;
\* metadata.json is always rewritten.
persist(m, f) ==
  [index_faiss |-> IF ntotal(m.index) > 0 THEN Some(m.index) ELSE f.index_faiss,
   metadata_json |-> Some([documents |-> m._documents,
                           id_to_idx |-> m._id_to_idx,
                           idx_to_id |-> KeysToStr(m._idx_to_id),
                           next_idx |-> m._next_idx])]

\* _load_from_disk(): nothing without metadata.json; the index is replaced
\* only if index.faiss exists.
_load_from_disk(m, f) ==
  IF f.metadata_json = Nothing THEN m
  ELSE LET data == f.metadata_json[1]
       IN  [_documents |-> data.documents,
            _id_to_idx |-> data.id_to_idx,
            _idx_to_id |-> KeysToInt(data.idx_to_id),
            _next_idx |-> data.next_idx,
            index |-> IF f.index_faiss # Nothing THEN f.index_faiss[1] ELSE m.index]

\* __init__: empty tables, a fresh index, then _load_from_disk().
FAISSVectorStore(f) == _load_from_disk(EmptyStore, f)

\* add_documents, line 61: index.add(vectors) of the normalized embeddings.
index_add(m, batch) ==
  [m EXCEPT !.index = m.index \o [i \in 1..Len(batch) |-> normalize_L2(batch[i].embedding)]]

RECURSIVE assign_slots_no_increment(_, _)
\* assign_slots without "self._next_idx += 1".
assign_slots_no_increment(m, batch) ==
  IF Len(batch) = 0 THEN m
  ELSE LET doc == Head(batch)
           idx == m._next_idx
       IN  assign_slots_no_increment(
             [m EXCEPT !._id_to_idx = Put(m._id_to_idx, doc.id, idx),
                       !._idx_to_id = Put(m._idx_to_id, idx, doc.id),
                       !._documents = SetDoc(m._documents,
                                             [id |-> doc.id, text |-> doc.text, metadata |-> doc.metadata])],
             Tail(batch))

RECURSIVE assign_slots(_, _)
\* add_documents, lines 63-72: one slot and one table entry per document.
assign_slots(m, batch) ==
  IF Len(batch) = 0 THEN m
  ELSE LET doc == Head(batch)
           idx == m._next_idx
       IN  assign_slots(
             [m EXCEPT !._id_to_idx = Put(m._id_to_idx, doc.id, idx),
                       !._idx_to_id = Put(m._idx_to_id, idx, doc.id),
                       !._documents = SetDoc(m._documents,
                                             [id |-> doc.id, text |-> doc.text, metadata |-> doc.metadata]),
                       !._next_idx = idx + 1],
             Tail(batch))

\* The store and its files after add_documents(ids, texts, embeddings, metadatas).
add_documents(m, f, batch) ==
  LET m2 == assign_slots(index_add(m, batch), batch)
  IN  [store |-> m2, files |-> persist(m2, f)]

get_document(m, doc_id) ==
  IF HasDoc(m._documents, doc_id) THEN Some(DocAt(m._documents, doc_id)) ELSE Nothing

count(m) == Len(m._documents)

\* update_document that stores what it was given, an omitted field as empty.
update_document_replace_all(m, f, doc_id, text, embedding, metadata) ==
  IF ~HasDoc(m._documents, doc_id) THEN [store |-> m, files |-> f, result |-> FALSE]
  ELSE LET new == [id |-> doc_id,
                   text |-> IF text # Nothing THEN text[1] ELSE << >>,
                   metadata |-> IF metadata # Nothing THEN metadata[1] ELSE << >>]
           m2 == [m EXCEPT !._documents = SetDoc(m._documents, new)]
       IN  [store |-> m2, files |-> persist(m2, f), result |-> TRUE]

\* update_document(doc_id, text, embedding, metadata): text and metadata are
\* optional; the embedding is accepted and never used.
update_document(m, f, doc_id, text, embedding, metadata) ==
  IF ~HasDoc(m._documents, doc_id) THEN [store |-> m, files |-> f, result |-> FALSE]
  ELSE LET old == DocAt(m._documents, doc_id)
           new == [id |-> doc_id,
                   text |-> IF text # Nothing THEN text[1] ELSE old.text,
                   metadata |-> IF metadata # Nothing THEN metadata[1] ELSE old.metadata]
           m2 == [m EXCEPT !._documents = SetDoc(m._documents, new)]
       IN  [store |-> m2, files |-> persist(m2, f), result |-> TRUE]

\* A variant of _rebuild_index that leaves the index and the slot tables as
\* they are.
_rebuild_index_kept(m) == m

\* _rebuild_index(): a fresh empty index and an empty mapping.
_rebuild_index(m) ==
  [m EXCEPT !.index = _create_index, !._id_to_idx = EmptyDict,
            !._idx_to_id = EmptyDict, !._next_idx = 0]

RECURSIVE delete_loop(_, _)
\* delete_documents, lines 137-144: [store, count] after the loop over ids.
delete_loop(m, ids) ==
  IF Len(ids) = 0 THEN [store |-> m, count |-> 0]
  ELSE LET doc_id == Head(ids)
           m2 == IF HasDoc(m._documents, doc_id)
                 THEN [m EXCEPT !._documents = DelDoc(m._documents, doc_id),
                                !._idx_to_id = IF doc_id \in DOMAIN m._id_to_idx
                                               THEN Del(m._idx_to_id, m._id_to_idx[doc_id])
                                               ELSE m._idx_to_id,
                                !._id_to_idx = Del(m._id_to_idx, doc_id)]
                 ELSE m
           rest == delete_loop(m2, Tail(ids))
       IN  [store |-> rest.store,
            count |-> rest.count + (IF HasDoc(m._documents, doc_id) THEN 1 ELSE 0)]

\* delete_documents without the rebuild and the persist that follow the loop.
delete_documents_no_persist(m, f, ids) ==
  [store |-> delete_loop(m, ids).store, files |-> f, count |-> delete_loop(m, ids).count]

\* A variant of delete_documents that rebuilds and persists whatever the count.
delete_documents_always_rebuilds(m, f, ids) ==
  LET r == delete_loop(m, ids)
  IN  [store |-> _rebuild_index(r.store),
       files |-> persist(_rebuild_index(r.store), f), count |-> r.count]

delete_documents(m, f, ids) ==
  LET r == delete_loop(m, ids)
  IN  IF r.count > 0
      THEN [store |-> _rebuild_index(r.store),
            files |-> persist(_rebuild_index(r.store), f), count |-> r.count]
      ELSE [store |-> r.store, files |-> f, count |-> 0]

\* delete_by_filter(filters): the ids whose metadata matches, in table order.
to_delete(m, filters) ==
  LET hit == SelectSeq(m._documents, LAMBDA d : _matches_filter(d.metadata, filters))
  IN  [i \in 1..Len(hit) |-> hit[i].id]
delete_by_filter(m, f, filters) == delete_documents(m, f, to_delete(m, filters))

clear(m, f) ==
  LET m2 == [EmptyStore EXCEPT !.index = _create_index]
  IN  [store |-> m2, files |-> persist(m2, f)]

get_all_texts(m) == [i \in 1..Len(m._documents) |-> <<m._documents[i].id, m._documents[i].text>>]

\* Scores are counted in halves: (ip + 1) / 2 clamped to [0, 1] is
\* score2 / 2 with score2 in 0..2.
Min(x, y) == IF x < y THEN x ELSE y
Max(x, y) == IF x > y THEN x ELSE y
Score2(ip) == Max(0, Min(2, ip + 1))

RECURSIVE search_loop(_, _, _, _, _, _)
\* search, lines 177-207: the loop over the index's answer.
search_loop(m, hits, top_k, filters, min_score, results) ==
  IF Len(hits) = 0 \/ Len(results) >= top_k THEN results
  ELSE LET idx == Head(hits).idx
           known == idx \in DOMAIN m._idx_to_id /\ HasDoc(m._documents, m._idx_to_id[idx])
           doc == DocAt(m._documents, m._idx_to_id[idx])
           score == Score2(Head(hits).ip)
           keep == /\ known
                   /\ ~(min_score # Nothing /\ score < min_score[1])
                   /\ ~(Len(filters) > 0 /\ ~_matches_filter(doc.metadata, filters))
       IN  search_loop(m, Tail(hits), top_k, filters, min_score,
                       IF keep
                       THEN Append(results, [id |-> doc.id, text |-> doc.text,
                                             metadata |-> doc.metadata, score |-> score])
                       ELSE results)

\* search(query_embedding, top_k, filters, min_score); no filter is the
\* empty dict, no min_score is Nothing.
search(m, query_embedding, top_k, filters, min_score) ==
  IF ntotal(m.index) = 0 THEN << >>
  ELSE LET search_k == Min(IF Len(filters) > 0 THEN top_k * 5 ELSE top_k, ntotal(m.index))
           hits == index_search(m.index, normalize_L2(query_embedding), search_k)
       IN  search_loop(m, hits, top_k, filters, min_score, << >>)

---------------------------------------------------------------------------
\* The state.
\*   _stores, _meta   StoreManager's live stores (name -> store object) and
\*                    metadata records (an ordered dict, kept as a sequence)
\*   registry         registry.json, an optional list of metadata dicts
\*   files            the files of each collection's FAISS directory
\*   _indices, _doc_data   KeywordSearchEngine's cache, by collection name
\*   supplied         (history) the normalized vectors ever given to
\*                    add_documents with each id
\*   deleted          (history) the ids delete_documents removed and that
\*                    were not added again
\*   orphaned         (history) the ids that survived a delete_documents
\*                    call that removed something, and were not added again
\*   reqs             the HTTP requests in flight: each one's position in its
\*                    route handler (or in the worker thread it awaits) and
\*                    its local variables
\*   clock            (history) the number of writes to document tables
\*   responded        (history) the clock value of the latest write whose
\*                    document route has returned its response

VARIABLES _stores, _meta, registry, files, _indices, _doc_data, supplied, deleted, orphaned,
          reqs, clock, responded

vars == <<_stores, _meta, registry, files, _indices, _doc_data, supplied, deleted, orphaned,
          reqs, clock, responded>>
mgrVars == <<_meta, registry>>
kwVars == <<_indices, _doc_data>>
histVars == <<supplied, deleted, orphaned>>
apiVars == <<reqs, clock, responded>>

\* The inputs of add_documents: every batch of 1..MaxBatch documents, each
\* with one of two bodies (update_document reaches the other combinations).
Bodies == {[text |-> <<"the", "cat">>, metadata |-> <<Entry("tag", IntV(1))>>],
           [text |-> <<"a", "dog">>, metadata |-> <<Entry("tag", IntV(2))>>]}
DocInputs ==
  {[id |-> id, text |-> b.text, embedding |-> e, metadata |-> b.metadata] :
     id \in DocIds, b \in Bodies, e \in RawVectors}
Batches == UNION {[1..n -> DocInputs] : n \in 1..MaxBatch}
IdLists == UNION {[1..n -> DocIds] : n \in 0..MaxBatch}
BatchIds(batch) == {batch[i].id : i \in 1..Len(batch)}

RECURSIVE record_supplied(_, _)
record_supplied(sup, batch) ==
  IF Len(batch) = 0 THEN sup
  ELSE record_supplied(
         [sup EXCEPT ![Head(batch).id] = @ \cup {normalize_L2(Head(batch).embedding)}],
         Tail(batch))

\* The requests that can be in flight at once, and a request slot at rest.
\* doc_pairs and bm25 are the locals of KeywordSearchEngine.search; ver
\* (history) is the clock value when the snapshot was exported.
Requests == {"r1", "r2"}
NoSnapshot == [pairs |-> << >>, ver |-> 0]
NoModel == [corpus |-> << >>, ver |-> 0]
IdleReq ==
  [pc |-> "idle", kind |-> "none", args |-> << >>, count |-> 0, wrote |-> FALSE,
   write_ver |-> 0, doc_pairs |-> NoSnapshot, bm25 |-> NoModel, need |-> 0, top_k |-> 0,
   filters |-> << >>, scored |-> << >>, max_score |-> 0, results |-> << >>]

\* CollectionMeta of a collection created with the defaults.
CollectionMeta(name) == [name |-> name, description |-> ""]

\* One collection, "docs", created and empty.
Init ==
  /\ _stores = [c \in {"docs"} |-> EmptyStore]
  /\ _meta = <<CollectionMeta("docs")>>
  /\ registry = Some(<<CollectionMeta("docs")>>)
  /\ files = [c \in Collections |-> NoFiles]
  /\ _indices = EmptyDict
  /\ _doc_data = EmptyDict
  /\ supplied = [c \in Collections |-> [id \in DocIds |-> {}]]
  /\ deleted = [c \in Collections |-> {}]
  /\ orphaned = [c \in Collections |-> {}]
  /\ reqs = [r \in Requests |-> IdleReq]
  /\ clock = 0
  /\ responded = 0

\* store.add_documents(...) on the store of collection c.
AddDocuments(c, batch) ==
  /\ c \in DOMAIN _stores
  /\ ntotal(_stores[c].index) + Len(batch) <= MaxVectors
  /\ LET r == add_documents(_stores[c], files[c], batch)
     IN  /\ _stores' = [_stores EXCEPT ![c] = r.store]
         /\ files' = [files EXCEPT ![c] = r.files]
  /\ supplied' = [supplied EXCEPT ![c] = record_supplied(supplied[c], batch)]
  /\ deleted' = [deleted EXCEPT ![c] = deleted[c] \ BatchIds(batch)]
  /\ orphaned' = [orphaned EXCEPT ![c] = orphaned[c] \ BatchIds(batch)]
  /\ UNCHANGED <<apiVars, mgrVars, kwVars>>

\* store.update_document(doc_id, text, embedding, metadata).
UpdateDocument(c, doc_id, text, embedding, metadata) ==
  /\ c \in DOMAIN _stores
  /\ LET r == update_document(_stores[c], files[c], doc_id, text, embedding, metadata)
     IN  /\ _stores' = [_stores EXCEPT ![c] = r.store]
         /\ files' = [files EXCEPT ![c] = r.files]
  /\ UNCHANGED <<apiVars, mgrVars, kwVars, histVars>>

\* store.delete_documents(ids).
DeleteDocuments(c, ids) ==
  /\ c \in DOMAIN _stores
  /\ LET r == delete_documents(_stores[c], files[c], ids)
     IN  /\ _stores' = [_stores EXCEPT ![c] = r.store]
         /\ files' = [files EXCEPT ![c] = r.files]
  /\ deleted' = [deleted EXCEPT ![c] =
                   deleted[c] \cup ({ids[i] : i \in 1..Len(ids)} \cap DocIdsOf(_stores[c]._documents))]
  /\ orphaned' = [orphaned EXCEPT ![c] =
                    IF delete_documents(_stores[c], files[c], ids).count > 0
                    THEN DocIdsOf(_stores'[c]._documents) ELSE orphaned[c]]
  /\ UNCHANGED <<apiVars, mgrVars, kwVars, supplied>>

\* store.delete_by_filter(filters).
DeleteByFilter(c, filters) ==
  /\ c \in DOMAIN _stores
  /\ LET r == delete_by_filter(_stores[c], files[c], filters)
     IN  /\ _stores' = [_stores EXCEPT ![c] = r.store]
         /\ files' = [files EXCEPT ![c] = r.files]
  /\ deleted' = [deleted EXCEPT ![c] =
                   deleted[c] \cup {to_delete(_stores[c], filters)[i] :
                                      i \in 1..Len(to_delete(_stores[c], filters))}]
  /\ orphaned' = [orphaned EXCEPT ![c] =
                    IF delete_by_filter(_stores[c], files[c], filters).count > 0
                    THEN DocIdsOf(_stores'[c]._documents) ELSE orphaned[c]]
  /\ UNCHANGED <<apiVars, mgrVars, kwVars, supplied>>

\* store.clear().
Clear(c) ==
  /\ c \in DOMAIN _stores
  /\ LET r == clear(_stores[c], files[c])
     IN  /\ _stores' = [_stores EXCEPT ![c] = r.store]
         /\ files' = [files EXCEPT ![c] = r.files]
  /\ orphaned' = [orphaned EXCEPT ![c] = {}]
  /\ UNCHANGED <<apiVars, mgrVars, kwVars, supplied, deleted>>

\* store.persist().
Persist(c) ==
  /\ c \in DOMAIN _stores
  /\ files' = [files EXCEPT ![c] = persist(_stores[c], files[c])]
  /\ UNCHANGED <<apiVars, _stores, mgrVars, kwVars, histVars>>

---------------------------------------------------------------------------
\* StoreManager (vector_stores/factory.py).

max_collections == 2
Descriptions == {"", "notes"}

MetaNames(metas) == {metas[i].name : i \in 1..Len(metas)}
to_dict(meta) == [name |-> meta.name, description |-> meta.description]

\* _save_registry(): registry.json is the list of the records of _meta.
_save_registry(metas) == Some([i \in 1..Len(metas) |-> to_dict(metas[i])])

\* self._meta[name] = meta / del self._meta[name] on the ordered dict.
SetMeta(metas, meta) ==
  IF meta.name \in MetaNames(metas)
  THEN [i \in 1..Len(metas) |-> IF metas[i].name = meta.name THEN meta ELSE metas[i]]
  ELSE Append(metas, meta)
DelMeta(metas, name) == SelectSeq(metas, LAMBDA x : x.name # name)

\* _create_store(name, "faiss", dimension): a store built over the
\* collection's directory.
_create_store(name) == FAISSVectorStore(files[name])

RECURSIVE load_entries(_, _, _)
\* load_all, lines 148-157: [stores, metas] after the loop over the registry;
\* an entry whose store cannot be built (name in failing) is skipped.
load_entries(entries, failing, acc) ==
  IF Len(entries) = 0 THEN acc
  ELSE LET entry == Head(entries)
       IN  load_entries(Tail(entries), failing,
             IF entry.name \in failing THEN acc
             ELSE [stores |-> Put(acc.stores, entry.name, _create_store(entry.name)),
                   metas |-> SetMeta(acc.metas,
                                     [name |-> entry.name, description |-> entry.description])])

\* load_all() on the manager state [stores, metas].
load_all(mgr, failing) ==
  IF registry = Nothing THEN mgr ELSE load_entries(registry[1], failing, mgr)

\* create_collection(name): rejected (ValueError) for an existing name or at
\* the ceiling; otherwise store and metadata are registered and the registry
\* is rewritten.
CreateCollection(name) ==
  /\ name \notin DOMAIN _stores
  /\ Cardinality(DOMAIN _stores) < max_collections
  /\ _stores' = Put(_stores, name, _create_store(name))
  /\ _meta' = SetMeta(_meta, CollectionMeta(name))
  /\ registry' = _save_registry(_meta')
  /\ UNCHANGED <<apiVars, files, kwVars, histVars>>

\* update_collection(name, description).
UpdateCollection(name, description) ==
  /\ name \in MetaNames(_meta)
  /\ _meta' = SetMeta(_meta, [name |-> name, description |-> description])
  /\ registry' = _save_registry(_meta')
  /\ UNCHANGED <<apiVars, _stores, files, kwVars, histVars>>

\* delete_collection(name): store.clear(), then both entries are dropped and
\* the registry is rewritten.  The keyword cache is not touched.
delete_collection(name) ==
  /\ name \in DOMAIN _stores
  /\ files' = [files EXCEPT ![name] = clear(_stores[name], files[name]).files]
  /\ _stores' = Del(_stores, name)
  /\ _meta' = DelMeta(_meta, name)
  /\ registry' = _save_registry(_meta')
  /\ orphaned' = [orphaned EXCEPT ![name] = {}]
  /\ UNCHANGED <<kwVars, supplied, deleted>>

DeleteCollection(name) ==
  /\ delete_collection(name)
  /\ UNCHANGED apiVars

\* persist_all(): every store persists, then the registry is rewritten.
PersistAll ==
  /\ files' = [c \in Collections |->
                 IF c \in DOMAIN _stores THEN persist(_stores[c], files[c]) ELSE files[c]]
  /\ registry' = _save_registry(_meta)
  /\ UNCHANGED <<apiVars, _stores, _meta, kwVars, histVars>>

\* A process restart: a new StoreManager and KeywordSearchEngine, then
\* load_all() (main.py, lifespan).  failing: the collections whose store
\* constructor raises while loading.
RestartProcess(failing) ==
  /\ LET mgr == load_all([stores |-> EmptyDict, metas |-> << >>], failing)
     IN  /\ _stores' = mgr.stores
         /\ _meta' = mgr.metas
  /\ _indices' = EmptyDict
  /\ _doc_data' = EmptyDict
  /\ UNCHANGED <<apiVars, registry, files, histVars>>

---------------------------------------------------------------------------
\* Spec: one Dense-Index collection under every sequence of store operations
\* and restarts.

Restart == RestartProcess({})

\* embedding_manager.embed_texts / embed_query: the model's embedding of each
\* text, a unit vector.
embed_texts(text) == IF text = <<"the", "cat">> THEN <<1, 0>> ELSE <<0, 1>>

\* The optional arguments of update_document.
OptTexts == {Nothing} \cup {Some(x) : x \in Texts}
OptVectors == {Nothing} \cup {Some(x) : x \in RawVectors}
OptMetadatas == {Nothing} \cup {Some(x) : x \in Metadatas}
\* The embedding the update route passes: that of the new text, if any.
embedding_for(text) == IF text # Nothing THEN Some(embed_texts(text[1])) ELSE Nothing

\* The batches that fit the room left in the index of collection c.
FittingBatches(c) ==
  UNION {[1..n -> DocInputs] : n \in 1..Min(MaxBatch, MaxVectors - ntotal(_stores[c].index))}

Next ==
  \/ \E c \in DOMAIN _stores : \E batch \in FittingBatches(c) : AddDocuments(c, batch)
  \/ \E c \in DOMAIN _stores, doc_id \in DocIds, text \in OptTexts, metadata \in OptMetadatas :
       UpdateDocument(c, doc_id, text, embedding_for(text), metadata)
  \/ \E c \in DOMAIN _stores, ids \in IdLists : DeleteDocuments(c, ids)
  \/ \E c \in DOMAIN _stores, filters \in Filters : DeleteByFilter(c, filters)
  \/ \E c \in DOMAIN _stores : Clear(c)
  \/ \E c \in DOMAIN _stores : Persist(c)
  \/ Restart

Spec == Init /\ [][Next]_vars

---------------------------------------------------------------------------
\* Properties of the Dense-Index store (checked under Spec).

MinScores == {Nothing, Some(1), Some(2)}
ResultIds(results) == {results[i].id : i \in 1..Len(results)}
\* Every answer search can give in the store m.
SearchAnswers(m) ==
  {search(m, q, k, flt, ms) : q \in QueryVectors, k \in 1..MaxTopK, flt \in Filters, ms \in MinScores}

\* C1: in every reachable state the index holds as many vectors as slots
\* were handed out (ntotal = _next_idx), and the vector at every mapped
\* position s is one that was supplied with the document _idx_to_id[s].
C1_IndexHoldsSuppliedVectors ==
  \A c \in DOMAIN _stores :
    LET m == _stores[c]
    IN  /\ ntotal(m.index) = m._next_idx
        /\ \A s \in DOMAIN m._idx_to_id :
             /\ s < ntotal(m.index)
             /\ m.index[s + 1] \in supplied[c][m._idx_to_id[s]]

\* C2: an id removed by delete_documents and not added again is absent from
\* get_document, has no entry in _id_to_idx, and is in no search answer.
C2_DeletedIdStaysGone ==
  \A c \in DOMAIN _stores : \A id \in deleted[c] :
    /\ get_document(_stores[c], id) = Nothing
    /\ id \notin DOMAIN _stores[c]._id_to_idx
    /\ \A res \in SearchAnswers(_stores[c]) : id \notin ResultIds(res)

\* "a" was deleted and its vector is back in the index (read from the stale
\* index file by a restart), while a search finds "b", added afterwards.
C2_Witness ==
  /\ "docs" \in DOMAIN _stores
  /\ "a" \in deleted["docs"]
  /\ supplied["docs"]["a"] = {<<1, 0>>}
  /\ supplied["docs"]["b"] = {<<0, 1>>}
  /\ \E p \in 1..ntotal(_stores["docs"].index) : _stores["docs"].index[p] = <<1, 0>>
  /\ \E res \in SearchAnswers(_stores["docs"]) : ResultIds(res) = {"b"}

\* C3 as stated: every live document has a slot, and
\* _idx_to_id[_id_to_idx[d]] = d.
C3_EveryLiveDocumentHasSlot ==
  \A c \in DOMAIN _stores : \A d \in DocIdsOf(_stores[c]._documents) :
    /\ d \in DOMAIN _stores[c]._id_to_idx
    /\ _stores[c]._id_to_idx[d] \in DOMAIN _stores[c]._idx_to_id
    /\ _stores[c]._idx_to_id[_stores[c]._id_to_idx[d]] = d

\* C3 amended: every id with a slot is a live document with
\* _idx_to_id[_id_to_idx[d]] = d, and a live document has a slot unless it
\* survived a deletion (whose rebuild empties the mapping) since it was last
\* added.
C3_SlotRoundTrip ==
  \A c \in DOMAIN _stores :
    LET m == _stores[c]
    IN  /\ \A d \in DOMAIN m._id_to_idx :
             /\ HasDoc(m._documents, d)
             /\ m._id_to_idx[d] \in DOMAIN m._idx_to_id
             /\ m._idx_to_id[m._id_to_idx[d]] = d
        /\ \A d \in DocIdsOf(m._documents) \ orphaned[c] : d \in DOMAIN m._id_to_idx

\* One document lost its slot to a deletion and another was added after it
\* in a batch of two, so two slots are mapped.
C3_Witness ==
  /\ "docs" \in DOMAIN _stores
  /\ orphaned["docs"] # {}
  /\ Cardinality(DOMAIN _stores["docs"]._id_to_idx) = 1
  /\ _stores["docs"]._next_idx = 2
  /\ Len(_stores["docs"]._documents) = 2

\* C4: the store rebuilt from the two persisted files equals the store that
\* persisted them (document table, mapping, next slot and index vectors).
\* Every step of Spec ends with the store persisted or freshly loaded.
C4_RestartRestoresStore ==
  \A c \in DOMAIN _stores : FAISSVectorStore(files[c]) = _stores[c]

\* C5: upsert replaces in place: the table holds one entry per id, at most
\* one index position maps to an id, and no search answer repeats an id.
C5_UpsertInPlace ==
  \A c \in DOMAIN _stores :
    LET m == _stores[c]
    IN  /\ count(m) = Cardinality(DocIdsOf(m._documents))
        /\ \A id \in DocIds : Cardinality({s \in DOMAIN m._idx_to_id : m._idx_to_id[s] = id}) <= 1
        /\ \A res \in SearchAnswers(m) : Cardinality(ResultIds(res)) = Len(res)

\* C13: in every reachable store, update_document on an absent id returns
\* False and gives back the same store and the same files; on a present id
\* it returns True, a field that was not supplied keeps its value, a
\* supplied one takes the given value, and every other document is as
\* before.
C13_UpdateFrame ==
  \A c \in DOMAIN _stores, doc_id \in DocIds, text \in OptTexts, embedding \in OptVectors,
     metadata \in OptMetadatas :
    LET m == _stores[c]
        res == update_document(m, files[c], doc_id, text, embedding, metadata)
    IN  IF get_document(m, doc_id) = Nothing
        THEN ~res.result /\ res.store = m /\ res.files = files[c]
        ELSE /\ res.result
             /\ get_document(res.store, doc_id)[1].text =
                  (IF text # Nothing THEN text[1] ELSE get_document(m, doc_id)[1].text)
             /\ get_document(res.store, doc_id)[1].metadata =
                  (IF metadata # Nothing THEN metadata[1] ELSE get_document(m, doc_id)[1].metadata)
             /\ \A other \in DocIds \ {doc_id} :
                  get_document(res.store, other) = get_document(m, other)
             /\ count(res.store) = count(m)

\* Document "a" holds the text of one input body and the metadata of the
\* other, which only an update of one field produces, beside a document "b".
C13_Witness ==
  /\ "docs" \in DOMAIN _stores
  /\ get_document(_stores["docs"], "a") # Nothing
  /\ get_document(_stores["docs"], "b") # Nothing
  /\ get_document(_stores["docs"], "a")[1].text = <<"a", "dog">>
  /\ get_document(_stores["docs"], "a")[1].metadata = <<Entry("tag", IntV(1))>>

\* C14: in every reachable store, update_document on a present id that has
\* a position in the index, with an embedding supplied, leaves that
\* (normalized) embedding at the document's position, so searches score the
\* document against it.
C14_UpdateReplacesVector ==
  \A c \in DOMAIN _stores, doc_id \in DocIds, text \in OptTexts, embedding \in RawVectors :
    LET m == _stores[c]
        res == update_document(m, files[c], doc_id, text, Some(embedding), Nothing).store
    IN  (/\ get_document(m, doc_id) # Nothing
         /\ doc_id \in DOMAIN m._id_to_idx
         /\ m._id_to_idx[doc_id] < ntotal(m.index)) =>
          /\ doc_id \in DOMAIN res._id_to_idx
          /\ res._id_to_idx[doc_id] < ntotal(res.index)
          /\ res.index[res._id_to_idx[doc_id] + 1] = normalize_L2(embedding)

---------------------------------------------------------------------------
\* SpecMgr: the StoreManager over both collection names, from an empty
\* deployment, with ingests of the one document "a" into the live stores.

InitMgr ==
  /\ _stores = EmptyDict
  /\ _meta = << >>
  /\ registry = Nothing
  /\ files = [c \in Collections |-> NoFiles]
  /\ _indices = EmptyDict
  /\ _doc_data = EmptyDict
  /\ supplied = [c \in Collections |-> [id \in DocIds |-> {}]]
  /\ deleted = [c \in Collections |-> {}]
  /\ orphaned = [c \in Collections |-> {}]
  /\ reqs = [r \in Requests |-> IdleReq]
  /\ clock = 0
  /\ responded = 0

MgrBatches == {<<d>> : d \in {x \in DocInputs : x.text = <<"the", "cat">> /\ x.id = "a"}}

LoadAll == \E failing \in SUBSET Collections : RestartProcess(failing)

NextMgr ==
  \/ \E name \in Collections : CreateCollection(name)
  \/ \E name \in Collections, description \in Descriptions : UpdateCollection(name, description)
  \/ \E name \in Collections : DeleteCollection(name)
  \/ PersistAll
  \/ LoadAll
  \/ \E c \in Collections, batch \in MgrBatches : AddDocuments(c, batch)

SpecMgr == InitMgr /\ [][NextMgr]_vars

RegistryNames == IF registry = Nothing THEN {} ELSE MetaNames(registry[1])

\* C6: after every StoreManager operation the names with a live store, the
\* names with a metadata record and the names in registry.json are the same
\* set.
C6_RegistryMatchesStores ==
  /\ DOMAIN _stores = MetaNames(_meta)
  /\ MetaNames(_meta) = RegistryNames

---------------------------------------------------------------------------
\* KeywordSearchEngine (search/keyword_search.py).

stop_words ==
  {"the", "a", "an", "is", "are", "was", "were", "be", "been", "being",
   "have", "has", "had", "do", "does", "did", "will", "would", "could",
   "should", "may", "might", "shall", "can", "to", "of", "in", "for",
   "on", "with", "at", "by", "from", "as", "into", "through", "during",
   "before", "after", "above", "below", "between", "and", "but", "or",
   "not", "no", "nor", "so", "yet", "both", "either", "neither", "each",
   "every", "all", "any", "few", "more", "most", "other", "some", "such",
   "than", "too", "very", "just", "also", "this", "that", "these", "those",
   "it", "its", "he", "she", "they", "them", "their", "we", "us", "our"}
\* The words of the model's vocabulary that are one character long.
SingleCharWords == {"a", "x"}

\* _tokenize(text): stop words and one-character tokens are dropped.
_tokenize(text) == SelectSeq(text, LAMBDA w : w \notin stop_words /\ w \notin SingleCharWords)

\* BM25Okapi(tokenized): the model is known by the corpus it was fit on.
BM25Okapi(doc_pairs) == [i \in 1..Len(doc_pairs) |-> _tokenize(doc_pairs[i][2])]

RECURSIVE sort_reverse(_, _)
\* scored_docs.sort(key=score, reverse=True): the positions by descending
\* score, equal scores in their original order.
sort_reverse(scores, cands) ==
  IF cands = {} THEN << >>
  ELSE LET best == CHOOSE p \in cands : \A q \in cands :
                     scores[p] > scores[q] \/ (scores[p] = scores[q] /\ p <= q)
       IN  <<best>> \o sort_reverse(scores, cands \ {best})

SeqMax(scores) == CHOOSE x \in {scores[i] : i \in 1..Len(scores)} : \A i \in 1..Len(scores) : scores[i] <= x
Prefix(seq, n) == SubSeq(seq, 1, Min(n, Len(seq)))

\* The keys of the model for which key.startswith("$") holds.
DollarKeys ==
  {"$and", "$or", "$not", "$eq", "$ne", "$gt", "$gte", "$lt", "$lte", "$in", "$nin", "$contains",
   "$exists"}

\* One operator of an operator-dict in KeywordSearchEngine._matches_filter:
\* as the store's, but "$contains" fails on a str value only.
KeywordOpFails(op, value, target) ==
  \/ op # "$contains" /\ OpFails(op, value, target)
  \/ op = "$contains" /\ value.t = "str" /\ target # value

RECURSIVE KeywordSearchEngine_matches_filter(_, _)
\* KeywordSearchEngine._matches_filter(metadata, filters): a "$" key that is
\* not $and / $or / $not is skipped.
KeywordSearchEngine_matches_filter(metadata, filters) ==
  IF Len(filters) = 0 THEN TRUE
  ELSE LET key == Head(filters).key
           condition == Head(filters).val
           value == DictGet(metadata, key)
       IN  IF key = "$and"
           THEN \A i \in 1..Len(condition.v) :
                  KeywordSearchEngine_matches_filter(metadata, condition.v[i].v)
           ELSE IF key = "$or"
           THEN \E i \in 1..Len(condition.v) :
                  KeywordSearchEngine_matches_filter(metadata, condition.v[i].v)
           ELSE IF key = "$not"
           THEN ~KeywordSearchEngine_matches_filter(metadata, condition.v)
           ELSE IF key \in DollarKeys
           THEN KeywordSearchEngine_matches_filter(metadata, Tail(filters))
           ELSE IF condition.t = "dict"
           THEN IF \E i \in 1..Len(condition.v) :
                     KeywordOpFails(condition.v[i].key, value, condition.v[i].val)
                THEN FALSE
                ELSE KeywordSearchEngine_matches_filter(metadata, Tail(filters))
           ELSE IF value # condition
                THEN FALSE
                ELSE KeywordSearchEngine_matches_filter(metadata, Tail(filters))

\* search, lines 51-52: zip(scores, doc_pairs), sorted by descending score.
scored_docs(scores, doc_pairs) ==
  LET n == Min(Len(scores), Len(doc_pairs))
      order == sort_reverse(scores, 1..n)
  IN  [i \in 1..n |-> [score |-> scores[order[i]], id |-> doc_pairs[order[i]][1],
                       text |-> doc_pairs[order[i]][2]]]

\* keyword_iteration without "if doc is None: continue".
keyword_iteration_unchecked(m, item, max_score, filters, results) ==
  LET doc == get_document(m, item.id)
      metadata == IF doc = Nothing THEN << >> ELSE doc[1].metadata
  IN  IF item.score <= 0 THEN results
      ELSE IF Len(filters) > 0 /\ ~KeywordSearchEngine_matches_filter(metadata, filters)
      THEN results
      ELSE Append(results, [id |-> item.id, text |-> item.text, metadata |-> metadata,
                            score |-> <<item.score, max_score>>,
                            keyword_rank |-> Len(results) + 1])

\* search, lines 58-87: one iteration of the loop over the scored snapshot.
\* The normalized score score / max_score is kept as the pair.
keyword_iteration(m, item, max_score, filters, results) ==
  LET doc == get_document(m, item.id)
  IN  IF item.score <= 0 THEN results
      ELSE IF doc = Nothing THEN results
      ELSE IF Len(filters) > 0 /\ ~KeywordSearchEngine_matches_filter(doc[1].metadata, filters)
      THEN results
      ELSE Append(results, [id |-> item.id, text |-> item.text, metadata |-> doc[1].metadata,
                            score |-> <<item.score, max_score>>,
                            keyword_rank |-> Len(results) + 1])

\* invalidate(collection_name) on each of the two cache dicts.
invalidate(cache, collection_name) == Del(cache, collection_name)

---------------------------------------------------------------------------
\* The routes (api/routes/documents.py, collections.py, search.py).  A route
\* handler runs on the event loop; each store call and each keyword search
\* it awaits runs in a worker thread (asyncio.to_thread) with no lock, so the
\* steps of different requests interleave.  The requests are addressed to
\* the collection ApiCollection.

ApiCollection == "docs"
MaxWrites == 2
MaxScore == 1

OnConflict == {"skip", "error", "upsert"}
\* The bodies of ingest requests: document "a", document "b", or both.
ApiDocA == [id |-> "a", text |-> <<"the", "cat">>, metadata |-> <<Entry("tag", IntV(1))>>]
ApiDocB == [id |-> "b", text |-> <<"a", "dog">>, metadata |-> <<Entry("tag", IntV(2))>>]
ApiBodies == {<<ApiDocA>>, <<ApiDocB>>, <<ApiDocA, ApiDocB>>}
\* The bodies of update requests.
ApiUpdates == {[text |-> Some(<<"a", "dog">>), metadata |-> Nothing],
               [text |-> Nothing, metadata |-> Some(<<Entry("tag", IntV(2))>>)]}
KeywordFilters == {<< >>, <<Entry("tag", IntV(1))>>}

\* d[k] = x on a dict given as an entry sequence.
DictPut(entries, k, x) ==
  IF DictHas(entries, k)
  THEN [i \in 1..Len(entries) |-> IF entries[i].key = k THEN Entry(k, x) ELSE entries[i]]
  ELSE Append(entries, Entry(k, x))

\* validate_metadata: None values are dropped (the model's other values are
\* scalars, kept as they are).
validate_metadata(metadata) == SelectSeq(metadata, LAMBDA e : e.val # NoneV)

\* enrich_metadata: the computed fields (the timestamp and the character
\* counts are left out).
enrich_metadata(metadata, text, source) ==
  DictPut(DictPut(metadata, "_source", StrV(source)), "_word_count", IntV(Len(text)))

\* Requests whose worker thread may still write the document table, and
\* those that will still add to the index.
PendingWrites ==
  Cardinality({r \in Requests : reqs[r].pc \in {"add_index", "add_slots", "update", "del_loop"}})
RECURSIVE SumLen(_)
SumLen(rs) == IF rs = {} THEN 0 ELSE LET r == CHOOSE x \in rs : TRUE IN Len(reqs[r].args) + SumLen(rs \ {r})
PendingAdds == SumLen({r \in Requests : reqs[r].pc = "add_index"})

SetReq(r, rec) == reqs' = [reqs EXCEPT ![r] = rec]
SetStore(m) == _stores' = [_stores EXCEPT ![ApiCollection] = m]
SetFiles(f) == files' = [files EXCEPT ![ApiCollection] = f]
TheStore == _stores[ApiCollection]

\* ingest_documents, lines 38-58: the documents of the body that pass the
\* duplicate check, with their metadata cleaned and enriched (and, from line
\* 70, their embeddings).
accepted(m, documents, on_conflict) ==
  LET kept == SelectSeq(documents, LAMBDA doc :
                ~(get_document(m, doc.id) # Nothing /\ on_conflict \in {"skip", "error"}))
  IN  [i \in 1..Len(kept) |->
         [id |-> kept[i].id, text |-> kept[i].text, embedding |-> embed_texts(kept[i].text),
          metadata |-> enrich_metadata(validate_metadata(kept[i].metadata), kept[i].text, "api")]]

\* ingest_documents, lines 25-72, up to the hand-over of add_documents to a
\* thread.  With every document skipped or rejected the route returns at
\* line 61.
IngestStart(r, documents, on_conflict) ==
  /\ reqs[r].pc = "idle"
  /\ ApiCollection \in DOMAIN _stores
  /\ clock + PendingWrites < MaxWrites
  /\ ntotal(TheStore.index) + PendingAdds + Len(documents) <= MaxVectors
  /\ IF Len(accepted(TheStore, documents, on_conflict)) = 0
     THEN UNCHANGED reqs
     ELSE SetReq(r, [IdleReq EXCEPT !.pc = "add_index", !.kind = "ingest",
                                    !.args = accepted(TheStore, documents, on_conflict)])
  /\ UNCHANGED <<_stores, files, mgrVars, kwVars, histVars, clock, responded>>

\* add_documents, lines 52-61: normalize and index.add.
AddIndex(r) ==
  /\ reqs[r].pc = "add_index"
  /\ SetStore(index_add(TheStore, reqs[r].args))
  /\ SetReq(r, [reqs[r] EXCEPT !.pc = "add_slots"])
  /\ UNCHANGED <<files, mgrVars, kwVars, histVars, clock, responded>>

\* add_documents, lines 63-72: the loop that hands out slots and writes the
\* document table.
AddSlots(r) ==
  /\ reqs[r].pc = "add_slots"
  /\ SetStore(assign_slots(TheStore, reqs[r].args))
  /\ clock' = clock + 1
  /\ SetReq(r, [reqs[r] EXCEPT !.pc = "add_persist", !.args = << >>, !.wrote = TRUE,
                               !.write_ver = clock + 1])
  /\ UNCHANGED <<files, mgrVars, kwVars, histVars, responded>>

\* add_documents, lines 74-75: persist and return.
AddPersist(r) ==
  /\ reqs[r].pc = "add_persist"
  /\ SetFiles(persist(TheStore, files[ApiCollection]))
  /\ SetReq(r, [reqs[r] EXCEPT !.pc = "written"])
  /\ UNCHANGED <<_stores, mgrVars, kwVars, histVars, clock, responded>>

\* update_document (route), lines 232-248, up to the hand-over to the thread.
UpdateStart(r, doc_id, text, metadata) ==
  /\ reqs[r].pc = "idle"
  /\ ApiCollection \in DOMAIN _stores
  /\ clock + PendingWrites < MaxWrites
  /\ SetReq(r, [IdleReq EXCEPT
       !.pc = "update", !.kind = "update",
       !.args = [doc_id |-> doc_id, text |-> text, embedding |-> embedding_for(text),
                 metadata |-> IF metadata # Nothing THEN Some(validate_metadata(metadata[1]))
                              ELSE Nothing]])
  /\ UNCHANGED <<_stores, files, mgrVars, kwVars, histVars, clock, responded>>

\* FAISSVectorStore.update_document, lines 120-126: the table write.
UpdateTable(r) ==
  /\ reqs[r].pc = "update"
  /\ LET a == reqs[r].args
         res == update_document(TheStore, files[ApiCollection], a.doc_id, a.text,
                                a.embedding, a.metadata)
     IN  IF res.result
         THEN /\ SetStore(res.store)
              /\ clock' = clock + 1
              /\ SetReq(r, [reqs[r] EXCEPT !.pc = "upd_persist", !.args = << >>,
                                           !.wrote = TRUE, !.write_ver = clock + 1])
         ELSE /\ SetReq(r, [reqs[r] EXCEPT !.pc = "not_found", !.args = << >>])
              /\ UNCHANGED <<_stores, clock>>
  /\ UNCHANGED <<files, mgrVars, kwVars, histVars, responded>>

\* FAISSVectorStore.update_document, lines 132-133: persist and return True.
UpdatePersist(r) ==
  /\ reqs[r].pc = "upd_persist"
  /\ SetFiles(persist(TheStore, files[ApiCollection]))
  /\ SetReq(r, [reqs[r] EXCEPT !.pc = "written"])
  /\ UNCHANGED <<_stores, mgrVars, kwVars, histVars, clock, responded>>

\* delete_document (kind "delete", one id) and bulk_delete_documents (kind
\* "bulk_delete") up to the hand-over to the thread.
DeleteStart(r, ids, kind) ==
  /\ reqs[r].pc = "idle"
  /\ ApiCollection \in DOMAIN _stores
  /\ clock + PendingWrites < MaxWrites
  /\ kind = "delete" => Len(ids) = 1
  /\ SetReq(r, [IdleReq EXCEPT !.pc = "del_loop", !.kind = kind, !.args = ids])
  /\ UNCHANGED <<_stores, files, mgrVars, kwVars, histVars, clock, responded>>

\* delete_documents, lines 136-146: the loop over the ids.  With nothing
\* removed the call returns 0.
DelLoop(r) ==
  /\ reqs[r].pc = "del_loop"
  /\ LET res == delete_loop(TheStore, reqs[r].args)
     IN  IF res.count > 0
         THEN /\ SetStore(res.store)
              /\ clock' = clock + 1
              /\ SetReq(r, [reqs[r] EXCEPT !.pc = "del_rebuild", !.args = << >>,
                                           !.count = res.count, !.wrote = TRUE,
                                           !.write_ver = clock + 1])
         ELSE /\ SetReq(r, [reqs[r] EXCEPT
                     !.args = << >>,
                     !.pc = IF reqs[r].kind = "delete" THEN "not_found" ELSE "written"])
              /\ UNCHANGED <<_stores, clock>>
  /\ UNCHANGED <<files, mgrVars, kwVars, histVars, responded>>

\* delete_documents, line 147: _rebuild_index().
DelRebuild(r) ==
  /\ reqs[r].pc = "del_rebuild"
  /\ SetStore(_rebuild_index(TheStore))
  /\ SetReq(r, [reqs[r] EXCEPT !.pc = "del_persist"])
  /\ UNCHANGED <<files, mgrVars, kwVars, histVars, clock, responded>>

\* delete_documents, lines 148-149: persist and return count.
DelPersist(r) ==
  /\ reqs[r].pc = "del_persist"
  /\ SetFiles(persist(TheStore, files[ApiCollection]))
  /\ SetReq(r, [reqs[r] EXCEPT !.pc = "written"])
  /\ UNCHANGED <<_stores, mgrVars, kwVars, histVars, clock, responded>>

\* The tail of a document route after its store call returned: 
\* keyword_engine.invalidate(name) and the response.
InvalidateRespond(r) ==
  /\ reqs[r].pc = "written"
  /\ _indices' = invalidate(_indices, ApiCollection)
  /\ _doc_data' = invalidate(_doc_data, ApiCollection)
  /\ responded' = Max(responded, reqs[r].write_ver)
  /\ SetReq(r, IdleReq)
  /\ UNCHANGED <<_stores, files, mgrVars, histVars, clock>>

\* update_document / delete_document: the 404 raised when the store call
\* found no such document.
RespondNotFound(r) ==
  /\ reqs[r].pc = "not_found"
  /\ SetReq(r, IdleReq)
  /\ UNCHANGED <<_stores, files, mgrVars, kwVars, histVars, clock, responded>>

\* delete_collection (route), lines 115-124, handled while no other request
\* is in flight: StoreManager.delete_collection on the event loop.
DeleteCollectionRoute(r) ==
  /\ reqs[r].pc = "idle"
  /\ \A q \in Requests : reqs[q].pc = "idle"
  /\ delete_collection(ApiCollection)
  /\ SetReq(r, [IdleReq EXCEPT !.pc = "deleted_collection", !.kind = "delete_collection",
                               !.wrote = TRUE, !.write_ver = clock])
  /\ UNCHANGED <<clock, responded>>

\* delete_collection (route), line 125: the response.
DeleteCollectionRespond(r) ==
  /\ reqs[r].pc = "deleted_collection"
  /\ SetReq(r, IdleReq)
  /\ UNCHANGED <<_stores, files, mgrVars, kwVars, histVars, clock, responded>>

\* create_collection (route).
CreateCollectionRoute ==
  /\ \A q \in Requests : reqs[q].pc = "idle"
  /\ CreateCollection(ApiCollection)

\* search_collection with search_type "keyword", lines 23-51.  need
\* (history) is the latest write whose response had been returned.
SearchStart(r, top_k, filters) ==
  /\ reqs[r].pc = "idle"
  /\ ApiCollection \in DOMAIN _stores
  /\ SetReq(r, [IdleReq EXCEPT !.pc = "kw_check", !.kind = "keyword", !.top_k = top_k,
                               !.filters = filters, !.need = responded])
  /\ UNCHANGED <<_stores, files, mgrVars, kwVars, histVars, clock, responded>>

\* search, line 38.
KwCheck(r) ==
  /\ reqs[r].pc = "kw_check"
  /\ SetReq(r, [reqs[r] EXCEPT
       !.pc = IF ApiCollection \in DOMAIN _indices THEN "kw_check2" ELSE "kw_export"])
  /\ UNCHANGED <<_stores, files, mgrVars, kwVars, histVars, clock, responded>>

\* build_index, lines 17-21: the full-text export; an empty export drops
\* the cache entries.
KwExport(r) ==
  /\ reqs[r].pc = "kw_export"
  /\ LET pairs == get_all_texts(TheStore)
     IN  IF Len(pairs) = 0
         THEN /\ _indices' = invalidate(_indices, ApiCollection)
              /\ _doc_data' = invalidate(_doc_data, ApiCollection)
              /\ SetReq(r, [reqs[r] EXCEPT !.pc = "kw_check2"])
         ELSE /\ SetReq(r, [reqs[r] EXCEPT !.pc = "kw_put_data",
                                           !.doc_pairs = [pairs |-> pairs, ver |-> clock]])
              /\ UNCHANGED kwVars
  /\ UNCHANGED <<_stores, files, mgrVars, histVars, clock, responded>>

\* build_index, line 23.
KwPutData(r) ==
  /\ reqs[r].pc = "kw_put_data"
  /\ _doc_data' = Put(_doc_data, ApiCollection, reqs[r].doc_pairs)
  /\ SetReq(r, [reqs[r] EXCEPT !.pc = "kw_put_index"])
  /\ UNCHANGED <<_stores, files, mgrVars, _indices, histVars, clock, responded>>

\* build_index, lines 24-25.
KwPutIndex(r) ==
  /\ reqs[r].pc = "kw_put_index"
  /\ _indices' = Put(_indices, ApiCollection,
                     [corpus |-> BM25Okapi(reqs[r].doc_pairs.pairs), ver |-> reqs[r].doc_pairs.ver])
  /\ SetReq(r, [reqs[r] EXCEPT !.pc = "kw_check2", !.doc_pairs = NoSnapshot])
  /\ UNCHANGED <<_stores, files, mgrVars, _doc_data, histVars, clock, responded>>

\* search, lines 41-42.
KwCheck2(r) ==
  /\ reqs[r].pc = "kw_check2"
  /\ SetReq(r, IF ApiCollection \in DOMAIN _indices
               THEN [reqs[r] EXCEPT !.pc = "kw_read_index"] ELSE IdleReq)
  /\ UNCHANGED <<_stores, files, mgrVars, kwVars, histVars, clock, responded>>

\* search, line 44; a KeyError ends the request.
KwReadIndex(r) ==
  /\ reqs[r].pc = "kw_read_index"
  /\ SetReq(r, IF ApiCollection \in DOMAIN _indices
               THEN [reqs[r] EXCEPT !.pc = "kw_read_data", !.bm25 = _indices[ApiCollection]]
               ELSE IdleReq)
  /\ UNCHANGED <<_stores, files, mgrVars, kwVars, histVars, clock, responded>>

\* search, line 45; a KeyError ends the request.
KwReadData(r) ==
  /\ reqs[r].pc = "kw_read_data"
  /\ SetReq(r, IF ApiCollection \in DOMAIN _doc_data
               THEN [reqs[r] EXCEPT !.pc = "kw_score", !.doc_pairs = _doc_data[ApiCollection]]
               ELSE IdleReq)
  /\ UNCHANGED <<_stores, files, mgrVars, kwVars, histVars, clock, responded>>

\* search, lines 47-58: scores is what bm25.get_scores returns, one score
\* per document of the model's corpus.
KwScore(r, scores) ==
  /\ reqs[r].pc = "kw_score"
  /\ Len(scores) = Len(reqs[r].bm25.corpus)
  /\ SetReq(r, [reqs[r] EXCEPT
       !.pc = "kw_loop",
       !.scored = Prefix(scored_docs(scores, reqs[r].doc_pairs.pairs), reqs[r].top_k * 3),
       !.max_score = IF SeqMax(scores) > 0 THEN SeqMax(scores) ELSE 1])
  /\ UNCHANGED <<_stores, files, mgrVars, kwVars, histVars, clock, responded>>

\* search, lines 58-90: one iteration, or the end of the loop.
KwLoop(r) ==
  /\ reqs[r].pc = "kw_loop"
  /\ IF Len(reqs[r].scored) = 0
     THEN SetReq(r, [reqs[r] EXCEPT !.pc = "kw_return"])
     ELSE LET results == keyword_iteration(TheStore, Head(reqs[r].scored), reqs[r].max_score,
                                           reqs[r].filters, reqs[r].results)
          IN  SetReq(r, [reqs[r] EXCEPT
                !.results = results,
                !.scored = IF Len(results) >= reqs[r].top_k THEN << >> ELSE Tail(reqs[r].scored),
                !.pc = IF Len(results) >= reqs[r].top_k THEN "kw_return" ELSE "kw_loop"])
  /\ UNCHANGED <<_stores, files, mgrVars, kwVars, histVars, clock, responded>>

\* search, line 92, and the route's response.
KwReturn(r) ==
  /\ reqs[r].pc = "kw_return"
  /\ SetReq(r, IdleReq)
  /\ UNCHANGED <<_stores, files, mgrVars, kwVars, histVars, clock, responded>>

\* SpecApi: concurrent requests on the collection "docs", created and empty
\* at the start: two requests in flight at most, one keyword search at a
\* time (on the slot of Searchers).  The history variables of Spec are not
\* maintained here.
Searchers == {"r1"}
InitApi == Init

NextApi ==
  \/ \E r \in Requests, documents \in ApiBodies, on_conflict \in OnConflict :
       IngestStart(r, documents, on_conflict)
  \/ \E r \in Requests : AddIndex(r)
  \/ \E r \in Requests : AddSlots(r)
  \/ \E r \in Requests : AddPersist(r)
  \/ \E r \in Requests, doc_id \in DocIds, body \in ApiUpdates :
       UpdateStart(r, doc_id, body.text, body.metadata)
  \/ \E r \in Requests : UpdateTable(r)
  \/ \E r \in Requests : UpdatePersist(r)
  \/ \E r \in Requests, ids \in IdLists, kind \in {"delete", "bulk_delete"} : DeleteStart(r, ids, kind)
  \/ \E r \in Requests : DelLoop(r)
  \/ \E r \in Requests : DelRebuild(r)
  \/ \E r \in Requests : DelPersist(r)
  \/ \E r \in Requests : InvalidateRespond(r)
  \/ \E r \in Requests : RespondNotFound(r)
  \/ \E r \in Requests : DeleteCollectionRoute(r)
  \/ \E r \in Requests : DeleteCollectionRespond(r)
  \/ CreateCollectionRoute
  \/ \E r \in Searchers, top_k \in {1, MaxTopK}, filters \in KeywordFilters : SearchStart(r, top_k, filters)
  \/ \E r \in Requests : KwCheck(r)
  \/ \E r \in Requests : KwExport(r)
  \/ \E r \in Requests : KwPutData(r)
  \/ \E r \in Requests : KwPutIndex(r)
  \/ \E r \in Requests : KwCheck2(r)
  \/ \E r \in Requests : KwReadIndex(r)
  \/ \E r \in Requests : KwReadData(r)
  \/ \E r \in Requests : \E scores \in [1..Len(reqs[r].bm25.corpus) -> 0..MaxScore] :
       KwScore(r, scores)
  \/ \E r \in Requests : KwLoop(r)
  \/ \E r \in Requests : KwReturn(r)

SpecApi == InitApi /\ [][NextApi]_vars

---------------------------------------------------------------------------
\* Properties of the routes and the keyword cache (checked under SpecApi).

\* C7: every id a keyword search appends to its results is, at that moment
\* of the query, the id of a document in the store's table, whatever the
\* cached snapshot holds.
C7_KeywordResultsAreLive ==
  [][\A r \in Requests :
       Len(reqs'[r].results) > Len(reqs[r].results) =>
         reqs'[r].results[Len(reqs'[r].results)].id \in DocIdsOf(TheStore._documents)]_vars

\* A search is in its loop over a cached snapshot of two documents, one of
\* them deleted since: the deleted one ranked first and was passed over (no
\* filter, no result so far), the live one with a positive score is next.
C7_Witness ==
  /\ ApiCollection \in DOMAIN _stores
  /\ \E r \in Requests :
       /\ reqs[r].pc = "kw_loop"
       /\ Len(reqs[r].filters) = 0
       /\ Len(reqs[r].results) = 0
       /\ Len(reqs[r].doc_pairs.pairs) = 2
       /\ Len(reqs[r].scored) = 1
       /\ reqs[r].scored[1].score > 0
       /\ reqs[r].scored[1].id \in DocIdsOf(TheStore._documents)
       /\ \E i \in 1..2 : reqs[r].doc_pairs.pairs[i][1] \notin DocIdsOf(TheStore._documents)

\* C8: when a request that wrote to the collection's documents returns its
\* response, the collection has no cached BM25 model and no cached snapshot.
C8_WriteDropsCache ==
  [][\A r \in Requests :
       (reqs[r].wrote /\ reqs[r].pc # "idle" /\ reqs'[r].pc = "idle") =>
         (ApiCollection \notin DOMAIN _indices' /\ ApiCollection \notin DOMAIN _doc_data')]_vars

\* C9: a keyword search is scored against a model and a snapshot exported
\* no earlier than the latest write whose response had been returned when
\* the search started.
C9_SearchSeesCompletedWrites ==
  \A r \in Requests :
    reqs[r].pc = "kw_score" =>
      /\ reqs[r].doc_pairs.ver >= reqs[r].need
      /\ reqs[r].bm25.ver >= reqs[r].need

\* The positions inside a store mutation: after its first write to the
\* store and before its return.
MidMutation == {"add_slots", "add_persist", "upd_persist", "del_rebuild", "del_persist"}

\* C10: at most one request is inside a mutation of the collection's store.
C10_OneMutationAtATime ==
  Cardinality({r \in Requests : reqs[r].pc \in MidMutation}) <= 1

---------------------------------------------------------------------------
\* SpecReg: the collection routes and the persist route (collections.py,
\* storage.py) as concurrent requests.  Each handler calls the StoreManager
\* directly on the event loop, with no await inside the call, so a handler
\* that has entered a manager operation keeps the loop until the operation
\* returns; create_collection awaits the embedding dimension (line 25)
\* before its call.  _save_registry is taken in its three statements: the
\* list is built (line 175), the file is opened for writing, which
\* truncates it (176), and the list is dumped (177).

\* registry.json between open(..., "w") and the end of json.dump.
PartialFile == <<"partial", << >> >>

\* The positions inside a StoreManager operation.
InManager == {"reg_compute", "reg_open", "reg_dump"}

\* The event loop without its serialization: any handler may step.
event_loop_free_unserialized(r) == TRUE

\* The event loop runs one handler at a time: r may step when no other
\* request is inside a manager operation.
event_loop_free(r) == \A q \in Requests \ {r} : reqs[q].pc \notin InManager

\* StoreManager.create_collection without the check of line 62.
create_collection_unchecked(stores, metas, name) ==
  IF Cardinality(DOMAIN stores) >= max_collections
  THEN [error |-> "maximum reached", stores |-> stores, metas |-> metas]
  ELSE [error |-> "", stores |-> Put(stores, name, _create_store(name)),
        metas |-> SetMeta(metas, CollectionMeta(name))]

\* StoreManager.create_collection without the check of line 65.
create_collection_no_ceiling(stores, metas, name) ==
  IF name \in DOMAIN stores
  THEN [error |-> "already exists", stores |-> stores, metas |-> metas]
  ELSE [error |-> "", stores |-> Put(stores, name, _create_store(name)),
        metas |-> SetMeta(metas, CollectionMeta(name))]

\* StoreManager.create_collection, lines 62-78: the ValueError raised, if
\* any, and _stores and _meta after the call.
create_collection(stores, metas, name) ==
  IF name \in DOMAIN stores
  THEN [error |-> "already exists", stores |-> stores, metas |-> metas]
  ELSE IF Cardinality(DOMAIN stores) >= max_collections
  THEN [error |-> "maximum reached", stores |-> stores, metas |-> metas]
  ELSE [error |-> "", stores |-> Put(stores, name, _create_store(name)),
        metas |-> SetMeta(metas, CollectionMeta(name))]

\* StoreManager.collection_exists(name).
collection_exists(name) == name \in DOMAIN _stores

\* The slot of a create request answered with an HTTPException.
Rejected(name, status, detail) ==
  [IdleReq EXCEPT !.kind = "create_collection", !.args = [name |-> name],
                  !.results = [status |-> status, detail |-> detail]]

\* create_collection (route), lines 21-22: the 409 for an existing name.
CreateConflict(r, name) ==
  /\ reqs[r].pc = "idle"
  /\ event_loop_free(r)
  /\ collection_exists(name)
  /\ SetReq(r, Rejected(name, 409, "already exists"))
  /\ UNCHANGED <<_stores, files, mgrVars, kwVars, histVars, clock, responded>>

\* create_collection (route), lines 21-25: the name is free; the await of
\* the embedding dimension.
CreateStart(r, name) ==
  /\ reqs[r].pc = "idle"
  /\ event_loop_free(r)
  /\ ~collection_exists(name)
  /\ SetReq(r, [IdleReq EXCEPT !.pc = "create_dim", !.kind = "create_collection",
                               !.args = [name |-> name]])
  /\ UNCHANGED <<_stores, files, mgrVars, kwVars, histVars, clock, responded>>

\* create_collection (route), lines 29-39, and StoreManager.create_collection,
\* lines 62-78: a ValueError (existing name, ceiling) becomes a 400.
CreateCall(r) ==
  /\ reqs[r].pc = "create_dim"
  /\ event_loop_free(r)
  /\ LET name == reqs[r].args.name
         res == create_collection(_stores, _meta, name)
     IN  /\ _stores' = res.stores
         /\ _meta' = res.metas
         /\ IF res.error # ""
            THEN SetReq(r, Rejected(name, 400, res.error))
            ELSE SetReq(r, [reqs[r] EXCEPT !.pc = "reg_compute"])
  /\ UNCHANGED <<registry, files, kwVars, histVars, clock, responded>>

\* update_collection (route) and StoreManager.update_collection, lines
\* 104-113.
UpdateCollectionCall(r, name, description) ==
  /\ reqs[r].pc = "idle"
  /\ event_loop_free(r)
  /\ name \in MetaNames(_meta)
  /\ _meta' = SetMeta(_meta, [name |-> name, description |-> description])
  /\ SetReq(r, [IdleReq EXCEPT !.pc = "reg_compute", !.kind = "update_collection"])
  /\ UNCHANGED <<_stores, registry, files, kwVars, histVars, clock, responded>>

\* delete_collection (route) and StoreManager.delete_collection, lines
\* 118-125.
DeleteCollectionCall(r, name) ==
  /\ reqs[r].pc = "idle"
  /\ event_loop_free(r)
  /\ name \in DOMAIN _stores
  /\ files' = [files EXCEPT ![name] = clear(_stores[name], files[name]).files]
  /\ _stores' = Del(_stores, name)
  /\ _meta' = DelMeta(_meta, name)
  /\ SetReq(r, [IdleReq EXCEPT !.pc = "reg_compute", !.kind = "delete_collection"])
  /\ UNCHANGED <<registry, kwVars, histVars, clock, responded>>

\* persist_all (route) and StoreManager.persist_all, lines 133-134.
PersistAllCall(r) ==
  /\ reqs[r].pc = "idle"
  /\ event_loop_free(r)
  /\ files' = [c \in Collections |->
                 IF c \in DOMAIN _stores THEN persist(_stores[c], files[c]) ELSE files[c]]
  /\ SetReq(r, [IdleReq EXCEPT !.pc = "reg_compute", !.kind = "persist_all"])
  /\ UNCHANGED <<_stores, mgrVars, kwVars, histVars, clock, responded>>

\* _save_registry, line 175: the list of the metadata dicts.
RegCompute(r) ==
  /\ reqs[r].pc = "reg_compute"
  /\ event_loop_free(r)
  /\ SetReq(r, [reqs[r] EXCEPT !.pc = "reg_open", !.args = _save_registry(_meta)])
  /\ UNCHANGED <<_stores, files, mgrVars, kwVars, histVars, clock, responded>>

\* _save_registry, line 176: open(..., "w") truncates the file.
RegOpen(r) ==
  /\ reqs[r].pc = "reg_open"
  /\ event_loop_free(r)
  /\ registry' = PartialFile
  /\ SetReq(r, [reqs[r] EXCEPT !.pc = "reg_dump"])
  /\ UNCHANGED <<_stores, _meta, files, kwVars, histVars, clock, responded>>

\* _save_registry, line 177: json.dump and close; the operation and the
\* handler return.
RegDump(r) ==
  /\ reqs[r].pc = "reg_dump"
  /\ event_loop_free(r)
  /\ registry' = reqs[r].args
  /\ SetReq(r, IdleReq)
  /\ UNCHANGED <<_stores, _meta, files, kwVars, histVars, clock, responded>>

InitReg == InitMgr

NextReg ==
  \/ \E r \in Requests, name \in Collections : CreateConflict(r, name)
  \/ \E r \in Requests, name \in Collections : CreateStart(r, name)
  \/ \E r \in Requests : CreateCall(r)
  \/ \E r \in Requests, name \in Collections, description \in Descriptions :
       UpdateCollectionCall(r, name, description)
  \/ \E r \in Requests, name \in Collections : DeleteCollectionCall(r, name)
  \/ \E r \in Requests : PersistAllCall(r)
  \/ \E r \in Requests : RegCompute(r)
  \/ \E r \in Requests : RegOpen(r)
  \/ \E r \in Requests : RegDump(r)

SpecReg == InitReg /\ [][NextReg]_vars

\* C11: at most one request is inside a manager operation (so inside a
\* manifest write) at a time, the manifest is partial only while one is, and
\* whenever none is the manifest is the list of the current metadata
\* records (or was never written, with no record).
C11_ManifestWritesSerialized ==
  /\ Cardinality({r \in Requests : reqs[r].pc \in InManager}) <= 1
  /\ registry = PartialFile => \E r \in Requests : reqs[r].pc = "reg_dump"
  /\ (\A r \in Requests : reqs[r].pc \notin InManager) =>
       \/ registry = _save_registry(_meta)
       \/ registry = Nothing /\ _meta = << >>

\* One request is in the middle of its manifest write (file truncated) while
\* the other, a create_collection awaiting its dimension, waits for the loop.
C11_Witness ==
  /\ registry = PartialFile
  /\ \E r, q \in Requests :
       /\ reqs[r].pc = "reg_dump"
       /\ reqs[r].kind = "delete_collection"
       /\ reqs[q].pc = "create_dim"

\* A step in which request r, a create_collection of a name that exists,
\* leaves the route: at its first check, or at the manager's call after the
\* await.
CreatesExisting(r) ==
  /\ reqs[r].pc \in {"idle", "create_dim"}
  /\ reqs'[r] # reqs[r]
  /\ reqs'[r].kind = "create_collection"
  /\ reqs'[r].pc # "create_dim"
  /\ reqs'[r].args.name \in DOMAIN _stores

---------------------------------------------------------------------------
\* SpecFail: add_documents calls that raise part-way.  add_documents has no
\* try / except, so the exception leaves the store and the files as the
\* statements before it made them.

\* The statements of add_documents at which a call can raise.
FailSteps == {"index_append", "table_update", "index_file", "table_file"}

\* The store and the files after add_documents raised at step:
\*   index_append  index.add raises (line 61): nothing was changed;
\*   table_update  the slot loop raises at its last document, at the dict
\*                 literal of line 67 (metadatas[i] with metadatas one short):
\*                 both mappings of that document are written, its table
\*                 entry and the increment of _next_idx are not;
\*   index_file    faiss.write_index raises (line 218): no file is changed;
\*   table_file    open(metadata.json, "w") raises (line 229): index.faiss
\*                 is the new one, metadata.json the old one.
add_documents_raises(m, f, batch, step) ==
  LET added == index_add(m, batch)
      before == assign_slots(added, SubSeq(batch, 1, Len(batch) - 1))
      last == batch[Len(batch)]
      partial == [before EXCEPT !._id_to_idx = Put(before._id_to_idx, last.id, before._next_idx),
                                !._idx_to_id = Put(before._idx_to_id, before._next_idx, last.id)]
      full == assign_slots(added, batch)
  IN  IF step = "index_append" THEN [store |-> m, files |-> f]
      ELSE IF step = "table_update" THEN [store |-> partial, files |-> f]
      ELSE IF step = "index_file" THEN [store |-> full, files |-> f]
      ELSE [store |-> full,
            files |-> [index_faiss |-> persist(full, f).index_faiss,
                       metadata_json |-> f.metadata_json]]

\* store.add_documents(...) raising at step.
AddDocumentsRaises(c, batch, step) ==
  /\ c \in DOMAIN _stores
  /\ ntotal(_stores[c].index) + Len(batch) <= MaxVectors
  /\ LET r == add_documents_raises(_stores[c], files[c], batch, step)
     IN  /\ _stores' = [_stores EXCEPT ![c] = r.store]
         /\ files' = [files EXCEPT ![c] = r.files]
  /\ UNCHANGED <<apiVars, mgrVars, kwVars, histVars>>

\* Adds (returning or raising), updates, persists and restarts of one
\* collection; no deletion.
NextFail ==
  \/ \E c \in DOMAIN _stores : \E batch \in FittingBatches(c) : AddDocuments(c, batch)
  \/ \E c \in DOMAIN _stores, step \in FailSteps : \E batch \in FittingBatches(c) :
       AddDocumentsRaises(c, batch, step)
  \/ \E c \in DOMAIN _stores, doc_id \in DocIds, text \in {Some(x) : x \in Texts} :
       UpdateDocument(c, doc_id, text, Nothing, Nothing)
  \/ \E c \in DOMAIN _stores : Persist(c)
  \/ Restart

SpecFail == Init /\ [][NextFail]_vars

\* The index holds no vector whose position has no table entry, and the next
\* slot is the number of vectors.
Consistent(m) ==
  /\ ntotal(m.index) = m._next_idx
  /\ \A p \in 0..(ntotal(m.index) - 1) :
       p \in DOMAIN m._idx_to_id /\ HasDoc(m._documents, m._idx_to_id[p])

\* C12: whether add_documents returned or raised, the store in memory and
\* the store its files describe are each consistent.
C12_AddFailureAtomic ==
  \A c \in DOMAIN _stores :
    /\ Consistent(_stores[c])
    /\ Consistent(FAISSVectorStore(files[c]))


---------------------------------------------------------------------------
\* ChromaVectorStore (vector_stores/chroma_store.py): the store keeps nothing
\* but the handle of an external collection, here the sequence of its records
\* in insertion order.

ChromaVectorStore == [collection |-> << >>]
IsChroma(m) == "collection" \in DOMAIN m

\* The metadata sanitization of add_documents and update_document: a list
\* becomes the string of its items joined by commas, a None entry is dropped.
\* str(item) and ",".join(...): a joined string is held as the sequence of
\* its comma-separated parts.
PyStr(x) == IF x.t = "int" THEN IntToStr(x.v) ELSE x.v
Joined(items) == [t |-> "str", v |-> [i \in 1..Len(items) |-> PyStr(items[i])]]

RECURSIVE clean_loop_keeps_null(_, _)
\* The sanitization loop without the branch that skips None.
clean_loop_keeps_null(meta, clean) ==
  IF Len(meta) = 0 THEN clean
  ELSE LET k == Head(meta).key
           v == Head(meta).val
       IN  clean_loop_keeps_null(Tail(meta),
             IF v.t = "list" THEN DictPut(clean, k, Joined(v.v)) ELSE DictPut(clean, k, v))

clean_metadata_keeps_null(meta) == clean_loop_keeps_null(meta, << >>)

RECURSIVE clean_loop(_, _)
\* The loop of lines 37-44 over meta.items(), clean being the dict so far.
clean_loop(meta, clean) ==
  IF Len(meta) = 0 THEN clean
  ELSE LET k == Head(meta).key
           v == Head(meta).val
       IN  clean_loop(Tail(meta),
             IF v.t = "list" THEN DictPut(clean, k, Joined(v.v))
             ELSE IF v = NoneV THEN clean
             ELSE DictPut(clean, k, v))

clean_metadata(meta) == clean_loop(meta, << >>)

RECURSIVE _build_where_filter(_)
\* _build_where_filter(filters): None (the empty mapping here) for no filter,
\* {key: {"$eq": value}} for one plain field, {"$and": [...]} for several.
_build_where_filter(filters) ==
  IF Len(filters) = 0 THEN << >>
  ELSE IF \E i \in 1..Len(filters) : filters[i].key \in {"$and", "$or", "$not"}
  THEN [i \in 1..Len(filters) |->
          IF filters[i].key \in {"$and", "$or"}
          THEN Entry(filters[i].key,
                     ListV([j \in 1..Len(filters[i].val.v) |->
                              DictV(_build_where_filter(filters[i].val.v[j].v))]))
          ELSE IF filters[i].key = "$not"
          THEN Entry("$not", DictV(_build_where_filter(filters[i].val.v)))
          ELSE filters[i]]
  ELSE IF Len(filters) = 1
  THEN IF filters[1].val.t = "dict" THEN filters
       ELSE <<Entry(filters[1].key, DictV(<<Entry("$eq", filters[1].val)>>))>>
  ELSE <<Entry("$and",
               ListV([i \in 1..Len(filters) |->
                        IF filters[i].val.t = "dict" THEN DictV(<<filters[i]>>)
                        ELSE DictV(<<Entry(filters[i].key,
                                           DictV(<<Entry("$eq", filters[i].val)>>))>>)]))>>

RECURSIVE where_matches(_, _)
\* The collection's own evaluation of a where clause on a record's metadata,
\* for the clauses the adapter builds from field equality and inequality.
where_matches(metadata, where) ==
  \A i \in 1..Len(where) :
    LET key == where[i].key
        cond == where[i].val
    IN  IF key = "$and" THEN \A j \in 1..Len(cond.v) : where_matches(metadata, cond.v[j].v)
        ELSE IF key = "$or" THEN \E j \in 1..Len(cond.v) : where_matches(metadata, cond.v[j].v)
        ELSE \A j \in 1..Len(cond.v) :
               \/ cond.v[j].key = "$eq" /\ DictHas(metadata, key)
                                        /\ DictGet(metadata, key) = cond.v[j].val
               \/ cond.v[j].key = "$ne" /\ DictGet(metadata, key) # cond.v[j].val

\* all_docs[start:end] for 0 <= start.
PySlice(s, start, end) == SubSeq(s, start + 1, Min(end, Len(s)))
Listed(docs) == [i \in 1..Len(docs) |-> [id |-> docs[i].id, text |-> docs[i].text,
                                         metadata |-> docs[i].metadata]]

\* collection.get(where=..., limit=..., offset=...) and collection.count().
collection_get(collection, where, limit, offset) ==
  PySlice(SelectSeq(collection, LAMBDA d : where_matches(d.metadata, where)),
          offset, offset + limit)
collection_count(collection) == Len(collection)

\* ChromaVectorStore.get_documents(page, limit, filters).
chroma_get_documents(m, page, limit, filters) ==
  LET where == IF Len(filters) > 0 THEN _build_where_filter(filters) ELSE << >>
      total == collection_count(m.collection)
      offset == (page - 1) * limit
  IN  [docs |-> Listed(collection_get(m.collection, where, limit, offset)), total |-> total]

\* FAISSVectorStore.get_documents(page, limit, filters).
get_documents(m, page, limit, filters) ==
  LET all_docs == IF Len(filters) > 0
                  THEN SelectSeq(m._documents, LAMBDA d : _matches_filter(d.metadata, filters))
                  ELSE m._documents
      total == Len(all_docs)
      start == (page - 1) * limit
  IN  [docs |-> Listed(PySlice(all_docs, start, start + limit)), total |-> total]

\* ChromaVectorStore.get_document(doc_id): the record of collection.get, or
\* None.
chroma_get_document(m, doc_id) ==
  IF HasDoc(m.collection, doc_id) THEN Some(DocAt(m.collection, doc_id)) ELSE Nothing

\* ChromaVectorStore.add_documents(ids, texts, embeddings, metadatas).
chroma_add_documents(m, batch) ==
  [store |-> [m EXCEPT !.collection =
                @ \o [i \in 1..Len(batch) |->
                        [id |-> batch[i].id, text |-> batch[i].text,
                         embedding |-> batch[i].embedding,
                         metadata |-> clean_metadata(batch[i].metadata)]]],
   count |-> Len(batch)]

\* ChromaVectorStore.delete_by_filter(filters).
chroma_delete_by_filter(m, filters) ==
  LET where == _build_where_filter(filters)
      hit == SelectSeq(m.collection, LAMBDA d : where_matches(d.metadata, where))
  IN  IF Len(where) = 0 THEN [store |-> m, count |-> 0]
      ELSE [store |-> [m EXCEPT !.collection =
                         SelectSeq(@, LAMBDA d : ~where_matches(d.metadata, where))],
            count |-> Len(hit)]

---------------------------------------------------------------------------
\* SpecBackends: a Dense-Index collection "docs" and a managed collection
\* "tmp" side by side, under adds and deletions by filter.

ChromaCollection == "tmp"
\* The filters both backends are given: {}, {"tag": 1}, {"tag": {"$ne": 1}}.
BackendFilters ==
  { << >>,
    <<Entry("tag", IntV(1))>>,
    <<Entry("tag", DictV(<<Entry("$ne", IntV(1))>>))>> }
Pages == 1..2
Limits == 1..2
\* The documents added, one at a time: both ids with both bodies,
\* and one with a list value and a None value in its metadata.
ListedDoc ==
  [id |-> "b", text |-> <<"a", "dog">>, embedding |-> <<2, 0>>,
   metadata |-> <<Entry("note", NoneV), Entry("tag", ListV(<<IntV(1), IntV(2)>>)),
                  Entry("kind", StrV("x"))>>]
BackendDocs == {d \in DocInputs : d.embedding = <<2, 0>>} \cup {ListedDoc}

InitBackends ==
  /\ _stores = [c \in Collections |-> IF c = ChromaCollection THEN ChromaVectorStore ELSE EmptyStore]
  /\ _meta = <<CollectionMeta("docs"), CollectionMeta(ChromaCollection)>>
  /\ registry = Some(<<CollectionMeta("docs"), CollectionMeta(ChromaCollection)>>)
  /\ files = [c \in Collections |-> NoFiles]
  /\ _indices = EmptyDict
  /\ _doc_data = EmptyDict
  /\ supplied = [c \in Collections |-> [id \in DocIds |-> {}]]
  /\ deleted = [c \in Collections |-> {}]
  /\ orphaned = [c \in Collections |-> {}]
  /\ reqs = [r \in Requests |-> IdleReq]
  /\ clock = 0
  /\ responded = 0

\* store.add_documents on the managed collection, with ids it does not hold.
ChromaAddDocuments(c, batch) ==
  /\ IsChroma(_stores[c])
  /\ Len(_stores[c].collection) + Len(batch) <= MaxBatch
  /\ \A i, j \in 1..Len(batch) : batch[i].id = batch[j].id => i = j
  /\ BatchIds(batch) \cap DocIdsOf(_stores[c].collection) = {}
  /\ _stores' = [_stores EXCEPT ![c] = chroma_add_documents(_stores[c], batch).store]
  /\ UNCHANGED <<apiVars, files, mgrVars, kwVars, histVars>>

\* store.delete_by_filter on the managed collection.
ChromaDeleteByFilter(c, filters) ==
  /\ IsChroma(_stores[c])
  /\ _stores' = [_stores EXCEPT ![c] = chroma_delete_by_filter(_stores[c], filters).store]
  /\ UNCHANGED <<apiVars, files, mgrVars, kwVars, histVars>>

NextBackends ==
  \/ \E d \in BackendDocs : AddDocuments("docs", <<d>>)
  \/ \E filters \in BackendFilters : DeleteByFilter("docs", filters)
  \/ \E d \in BackendDocs : ChromaAddDocuments(ChromaCollection, <<d>>)
  \/ \E filters \in BackendFilters : ChromaDeleteByFilter(ChromaCollection, filters)

SpecBackends == InitBackends /\ [][NextBackends]_vars

\* The records of a store, whichever backend holds them.
Records(m) == IF IsChroma(m) THEN m.collection ELSE m._documents
Matching(m, filters) == SelectSeq(Records(m), LAMBDA d : _matches_filter(d.metadata, filters))
list_documents(m, page, limit, filters) ==
  IF IsChroma(m) THEN chroma_get_documents(m, page, limit, filters)
  ELSE get_documents(m, page, limit, filters)

\* C15: for both backends, the second component of list(page, page_size,
\* filter) is the number of documents of the collection that match the filter
\* (all of them without a filter), whatever the page and the page size.
C15_ListTotalIsMatchCount ==
  \A c \in DOMAIN _stores, page \in Pages, limit \in Limits, filters \in BackendFilters :
    list_documents(_stores[c], page, limit, filters).total = Len(Matching(_stores[c], filters))


remove_by_filter(c, filters) ==
  IF IsChroma(_stores[c]) THEN chroma_delete_by_filter(_stores[c], filters)
  ELSE delete_by_filter(_stores[c], files[c], filters)

\* C16: for both backends and every filter, the empty mapping included,
\* delete_by_filter removes exactly the documents whose metadata matches the
\* filter, returns how many it removed and leaves the text and the metadata
\* of every other document as they were; no remaining document matches.
C16_DeleteByFilterExact ==
  \A c \in DOMAIN _stores, filters \in BackendFilters :
    LET before == Records(_stores[c])
        r == remove_by_filter(c, filters)
        after == Records(r.store)
    IN  /\ Listed(after) =
             Listed(SelectSeq(before, LAMBDA d : ~_matches_filter(d.metadata, filters)))
        /\ r.count = Len(Matching(_stores[c], filters))
        /\ Len(Matching(r.store, filters)) = 0


---------------------------------------------------------------------------
\* The filter evaluators with the outcome of a call: "True", "False", or
\* "TypeError" when a comparison of the loop raises.

\* a <= b, a < b raise TypeError unless both are numbers, both strings or
\* both lists.
Comparable(a, b) == a.t = b.t /\ a.t \in {"int", "str", "list"}

\* TRUE when the test of the operator's branch raises: an ordered comparison
\* of values of different types, value in target with a target that is no
\* container, target in value with value a string and target none.
OpRaises(op, value, target) ==
  \/ op \in {"$gt", "$gte", "$lt", "$lte"} /\ value # NoneV /\ ~Comparable(value, target)
  \/ op \in {"$in", "$nin"} /\ target.t \in {"int", "none"}
  \/ op \in {"$in", "$nin"} /\ target.t = "str" /\ value.t # "str"
  \/ op = "$contains" /\ value.t = "str" /\ target.t # "str"

Engines == {"faiss", "keyword"}

RECURSIVE ops_outcome(_, _, _)
\* The loop over an operator dict, lines 283-304 (keyword_search.py 140-159):
\* "raise" or "fail" at the first operator that raises or fails, else "pass".
ops_outcome(engine, value, ops) ==
  IF Len(ops) = 0 THEN "pass"
  ELSE IF OpRaises(Head(ops).key, value, Head(ops).val) THEN "raise"
  ELSE IF engine = "faiss" /\ OpFails(Head(ops).key, value, Head(ops).val) THEN "fail"
  ELSE IF engine = "keyword" /\ KeywordOpFails(Head(ops).key, value, Head(ops).val) THEN "fail"
  ELSE ops_outcome(engine, value, Tail(ops))

RECURSIVE matches_outcome(_, _, _)
RECURSIVE all_outcome(_, _, _)
RECURSIVE any_outcome(_, _, _)
\* all(self._matches_filter(metadata, c) for c in condition).
all_outcome(engine, metadata, conds) ==
  IF Len(conds) = 0 THEN "True"
  ELSE LET o == matches_outcome(engine, metadata, Head(conds).v)
       IN  IF o = "True" THEN all_outcome(engine, metadata, Tail(conds)) ELSE o

\* any(self._matches_filter(metadata, c) for c in condition).
any_outcome(engine, metadata, conds) ==
  IF Len(conds) = 0 THEN "False"
  ELSE LET o == matches_outcome(engine, metadata, Head(conds).v)
       IN  IF o = "False" THEN any_outcome(engine, metadata, Tail(conds)) ELSE o

\* _matches_filter(metadata, filters) of either engine: the loop over the
\* keys of filters, which returns at its first "$and", "$or" or "$not" key;
\* the keyword engine passes over any other key that starts with "$"
\* (keyword_search.py 129-136).
matches_outcome(engine, metadata, filters) ==
  IF Len(filters) = 0 THEN "True"
  ELSE LET key == Head(filters).key
           condition == Head(filters).val
           value == DictGet(metadata, key)
       IN  IF key = "$and" THEN all_outcome(engine, metadata, condition.v)
           ELSE IF key = "$or" THEN any_outcome(engine, metadata, condition.v)
           ELSE IF key = "$not"
           THEN LET o == matches_outcome(engine, metadata, condition.v)
                IN  IF o = "True" THEN "False" ELSE IF o = "False" THEN "True" ELSE o
           ELSE IF engine = "keyword" /\ key \in DollarKeys
           THEN matches_outcome(engine, metadata, Tail(filters))
           ELSE IF condition.t = "dict"
           THEN LET o == ops_outcome(engine, value, condition.v)
                IN  IF o = "raise" THEN "TypeError"
                    ELSE IF o = "fail" THEN "False"
                    ELSE matches_outcome(engine, metadata, Tail(filters))
           ELSE IF value # condition THEN "False"
           ELSE matches_outcome(engine, metadata, Tail(filters))

---------------------------------------------------------------------------
\* SpecFilter: one call of _matches_filter of both engines for every metadata
\* mapping and filter expression of the sets below.

Field(k, x) == <<Entry(k, x)>>
FieldOp(k, op, target) == <<Entry(k, DictV(<<Entry(op, target)>>))>>
Not(e) == <<Entry("$not", DictV(e))>>
And(a, b) == <<Entry("$and", ListV(<<DictV(a), DictV(b)>>))>>
Or(a, b) == <<Entry("$or", ListV(<<DictV(a), DictV(b)>>))>>
Compounds(S, T) ==
  {Not(e) : e \in S} \cup {And(a, b) : a \in S, b \in T} \cup {Or(a, b) : a \in S, b \in T}

OrderOps == {"$gt", "$gte", "$lt", "$lte"}
SetOps == {"$in", "$nin"}
\* {"tag": 1}, {"kind": "x"}, {"tag": 1, "kind": "x"}, {"tag": {op: 1}},
\* {"tag": {"$gte": 1, "$lte": 2}}, {"tag": {"$in": [1, 2]}}, {"kind": {"$contains": "x"}}.
FieldExprs ==
  {Field("tag", IntV(1)), Field("kind", StrV("x")), Field("tag", IntV(1)) \o Field("kind", StrV("x")),
   <<Entry("tag", DictV(<<Entry("$gte", IntV(1)), Entry("$lte", IntV(2))>>))>>,
   FieldOp("kind", "$contains", StrV("x"))}
  \cup {FieldOp("tag", op, IntV(1)) : op \in {"$eq", "$ne"} \cup OrderOps}
  \cup {FieldOp("tag", op, ListV(<<IntV(1), IntV(2)>>)) : op \in SetOps}
NestLeaves == {Field("tag", IntV(1)), FieldOp("tag", "$gt", IntV(1)),
               FieldOp("kind", "$contains", StrV("x"))}
Depth1 == Compounds(NestLeaves, NestLeaves)
Depth2 == Compounds(Depth1, {Field("kind", StrV("x"))})
Depth3 == Compounds(Depth2, {Field("tag", IntV(2))})
\* A mapping with a compound key and a field key, in both orders.
MixedExprs ==
  {c \o Field("kind", StrV("x")) : c \in Depth1} \cup {Field("kind", StrV("x")) \o c : c \in Depth1}
\* A number compared with a string field, a target of $in / $nin that is no
\* list, a target of $contains that is no string.
MixedTypeExprs ==
  {FieldOp("kind", op, IntV(1)) : op \in OrderOps}
  \cup {FieldOp("tag", op, IntV(1)) : op \in SetOps}
  \cup {FieldOp("kind", "$contains", IntV(1))}
\* A top-level key that starts with "$" and is no compound, alone and before
\* a field key; $contains against a list-valued field.
UnknownKeyExprs ==
  {Field("$exists", IntV(1)), Field("$exists", IntV(1)) \o Field("tag", IntV(1))}
ListContainsExprs == {FieldOp("tags", "$contains", IntV(n)) : n \in {1, 3}}
FilterExprs ==
  {<< >>} \cup FieldExprs \cup Depth1 \cup Depth2 \cup Depth3 \cup MixedExprs \cup MixedTypeExprs
    \cup UnknownKeyExprs \cup ListContainsExprs
FilterMetadatas ==
  {<< >>, Field("tag", IntV(1)), Field("tag", IntV(2)), Field("kind", StrV("x")),
   Field("tag", IntV(1)) \o Field("kind", StrV("x")),
   Field("tag", IntV(3)) \o Field("kind", StrV("y")),
   Field("tags", ListV(<<IntV(1), IntV(2)>>)),
   Field("tag", IntV(1)) \o Field("tags", ListV(<<IntV(1), IntV(2)>>))}

InitFilter ==
  /\ Init!1 /\ Init!2 /\ Init!3 /\ Init!4 /\ Init!5 /\ Init!6 /\ Init!7 /\ Init!8 /\ Init!9
  /\ \E metadata \in FilterMetadatas, filters \in FilterExprs :
       reqs = [r \in Requests |->
                 IF r = "r1"
                 THEN [IdleReq EXCEPT !.pc = "filter", !.kind = "filter",
                                      !.args = [metadata |-> metadata, filters |-> filters]]
                 ELSE IdleReq]
  /\ clock = 0
  /\ responded = 0

\* The call _matches_filter(metadata, filters) of both engines.
MatchesFilter(r) ==
  /\ reqs[r].pc = "filter"
  /\ SetReq(r, [reqs[r] EXCEPT
       !.pc = "filter_done",
       !.results = [e \in Engines |->
                      matches_outcome(e, reqs[r].args.metadata, reqs[r].args.filters)]])
  /\ UNCHANGED <<_stores, files, mgrVars, kwVars, histVars, clock, responded>>

NextFilter == \E r \in Requests : MatchesFilter(r)

SpecFilter == InitFilter /\ [][NextFilter]_vars

RECURSIVE Reference(_, _)
\* The reference evaluation: every key of the mapping must hold; "$and" is
\* all of its sub-expressions, "$or" any, "$not" the negation, a field's
\* operators are conjoined.
Reference(metadata, filters) ==
  \A i \in 1..Len(filters) :
    LET key == filters[i].key
        condition == filters[i].val
    IN  IF key = "$and" THEN \A j \in 1..Len(condition.v) : Reference(metadata, condition.v[j].v)
        ELSE IF key = "$or" THEN \E j \in 1..Len(condition.v) : Reference(metadata, condition.v[j].v)
        ELSE IF key = "$not" THEN ~Reference(metadata, condition.v)
        ELSE IF condition.t = "dict"
        THEN \A j \in 1..Len(condition.v) :
               ~OpFails(condition.v[j].key, DictGet(metadata, key), condition.v[j].val)
        ELSE DictGet(metadata, key) = condition

Evaluated(r) == reqs[r].pc = "filter_done"

\* C17: for every metadata mapping and every filter expression built from
\* field literals, the operators and $and / $or / $not nested three deep, the
\* Dense-Index store's matches returns the boolean of the reference
\* evaluation of the expression.
C17_MatchesAgreesWithReference ==
  \A r \in Requests :
    Evaluated(r) /\ reqs[r].args.filters \notin MixedTypeExprs =>
      reqs[r].results["faiss"] =
        (IF Reference(reqs[r].args.metadata, reqs[r].args.filters) THEN "True" ELSE "False")

\* C18: a condition on a field the metadata does not have fails for $eq,
\* $gt, $gte, $lt, $lte, $in, $contains and implicit equality and succeeds
\* for $ne and $nin, in both engines.
C18_AbsentFieldFails ==
  \A r \in Requests, e \in Engines, k \in {"tag", "kind"} :
    Evaluated(r) /\ ~DictHas(reqs[r].args.metadata, k) =>
      /\ \A x \in {IntV(1), StrV("x")} :
           reqs[r].args.filters = Field(k, x) => reqs[r].results[e] = "False"
      /\ \A op \in {"$eq", "$ne", "$contains"} \cup OrderOps \cup SetOps,
            x \in {IntV(1), StrV("x"), ListV(<<IntV(1), IntV(2)>>)} :
           reqs[r].args.filters = FieldOp(k, op, x) /\ reqs[r].args.filters \in FieldExprs =>
             reqs[r].results[e] = (IF op \in {"$ne", "$nin"} THEN "True" ELSE "False")

\* C19: the evaluation is total: for every metadata mapping and every filter
\* expression, ordered comparisons of a string with a number, $in / $nin with
\* a target that is no list and $contains with a target that is no string
\* included, matches returns true or false and raises nothing.
C19_MatchesIsTotal ==
  \A r \in Requests, e \in Engines :
    Evaluated(r) => reqs[r].results[e] \in {"True", "False"}


---------------------------------------------------------------------------
\* SpecCap: StoreManager.create_collection and delete_collection called with
\* three names under a ceiling of max_collections.  The slot "r1" holds the
\* last call and its error; refused (history) is the set of names whose
\* create was refused at the ceiling.

CapNames == Collections \cup {"logs"}

Called(kind, name, error, refused) ==
  [IdleReq EXCEPT !.kind = kind, !.args = [name |-> name],
                  !.results = [error |-> error, refused |-> refused]]

InitCap ==
  /\ _stores = EmptyDict
  /\ _meta = << >>
  /\ registry = Nothing
  /\ files = [c \in CapNames |-> NoFiles]
  /\ _indices = EmptyDict
  /\ _doc_data = EmptyDict
  /\ supplied = [c \in CapNames |-> [id \in DocIds |-> {}]]
  /\ deleted = [c \in CapNames |-> {}]
  /\ orphaned = [c \in CapNames |-> {}]
  /\ reqs = [r \in Requests |-> IF r = "r1" THEN Called("none", "", "", {}) ELSE IdleReq]
  /\ clock = 0
  /\ responded = 0

\* create_collection(name), lines 62-81: the ValueError of line 63 or 66, or
\* the new store, its record and the rewritten registry.
CapCreate(name) ==
  /\ LET res == create_collection(_stores, _meta, name)
         at_ceiling == res.error = "maximum reached"
     IN  /\ _stores' = res.stores
         /\ _meta' = res.metas
         /\ registry' = IF res.error = "" THEN _save_registry(res.metas) ELSE registry
         /\ SetReq("r1", Called("create_collection", name, res.error,
                                reqs["r1"].results.refused
                                  \cup (IF at_ceiling THEN {name} ELSE {})))
  /\ UNCHANGED <<files, kwVars, histVars, clock, responded>>

\* delete_collection(name), lines 117-127.
CapDelete(name) ==
  /\ delete_collection(name)
  /\ SetReq("r1", Called("delete_collection", name, "", reqs["r1"].results.refused))
  /\ UNCHANGED <<clock, responded>>

NextCap ==
  \/ \E name \in CapNames : CapCreate(name)
  \/ \E name \in CapNames : CapDelete(name)

SpecCap == InitCap /\ [][NextCap]_vars

\* A step that is a create_collection(name) call.
CreateStep(name) ==
  /\ reqs'["r1"].kind = "create_collection"
  /\ reqs'["r1"].args.name = name
  /\ reqs'["r1"] # reqs["r1"] \/ _stores' # _stores

\* C21: under create_collection and delete_collection calls the number of
\* live collections never exceeds max_collections; a create of a new name at
\* the ceiling is rejected and changes nothing, and below the ceiling (so
\* also after a deletion) it succeeds.
C21_CeilingEnforced ==
  [][/\ Cardinality(DOMAIN _stores') <= max_collections
     /\ \A name \in CapNames \ DOMAIN _stores :
          CreateStep(name) =>
            IF Cardinality(DOMAIN _stores) >= max_collections
            THEN /\ reqs'["r1"].results.error = "maximum reached"
                 /\ UNCHANGED <<_stores, _meta, registry, files>>
            ELSE /\ reqs'["r1"].results.error = ""
                 /\ DOMAIN _stores' = DOMAIN _stores \cup {name}]_vars

\* A collection whose create was refused at the ceiling has been created
\* after a deletion made room, and the manager is at the ceiling again.
C21_Witness ==
  /\ reqs["r1"].kind = "create_collection"
  /\ reqs["r1"].results.error = ""
  /\ reqs["r1"].args.name \in reqs["r1"].results.refused
  /\ reqs["r1"].args.name \in DOMAIN _stores
  /\ Cardinality(DOMAIN _stores) = max_collections


\* The sanitization rules of the managed backend: an entry with a null value
\* is dropped, a list value becomes its items joined with commas.
Sanitized(metadata) ==
  LET kept == SelectSeq(metadata, LAMBDA e : e.val # NoneV)
  IN  [i \in 1..Len(kept) |->
         IF kept[i].val.t = "list" THEN Entry(kept[i].key, Joined(kept[i].val.v)) ELSE kept[i]]

\* add_documents and get_document of either backend.
store_add(c, batch) ==
  IF IsChroma(_stores[c]) THEN chroma_add_documents(_stores[c], batch).store
  ELSE add_documents(_stores[c], files[c], batch).store
store_get(m, doc_id) ==
  IF IsChroma(m) THEN chroma_get_document(m, doc_id) ELSE get_document(m, doc_id)
store_remove(m, filters) ==
  IF IsChroma(m) THEN chroma_delete_by_filter(m, filters).store
  ELSE delete_by_filter(m, NoFiles, filters).store
\* The backend's own test of a stored record against a filter.
Selects(m, filters, doc) ==
  IF IsChroma(m)
  THEN Len(_build_where_filter(filters)) > 0
       /\ where_matches(doc.metadata, _build_where_filter(filters))
  ELSE _matches_filter(doc.metadata, filters)

\* The batches of one or two documents with distinct ids that the store of c
\* accepts (the managed collection takes new ids only).
RoundTripBatches(c) ==
  {b \in {<<d>> : d \in BackendDocs} \cup {<<d, e>> : d, e \in BackendDocs} :
     /\ \A i, j \in 1..Len(b) : b[i].id = b[j].id => i = j
     /\ IsChroma(_stores[c]) => BatchIds(b) \cap DocIdsOf(_stores[c].collection) = {}}

\* What get_document must return for a submitted document.
Submitted(m, d) ==
  [text |-> d.text, metadata |-> IF IsChroma(m) THEN Sanitized(d.metadata) ELSE d.metadata]
Returned(r) == [text |-> r[1].text, metadata |-> r[1].metadata]

\* C22: a document added to a store and then retrieved by id, with no update
\* or delete of that id in between, comes back with the submitted text and
\* the submitted metadata: as submitted from the dense backend, with list
\* values joined by commas and null values dropped from the managed one.
C22_AddGetRoundTrip ==
  \A c \in DOMAIN _stores : \A batch \in RoundTripBatches(c) : \A i \in 1..Len(batch) :
    LET m == store_add(c, batch)
        got == store_get(m, batch[i].id)
    IN  /\ got # Nothing
        /\ Returned(got) = Submitted(m, batch[i])
        /\ \A filters \in BackendFilters :
             ~Selects(m, filters, got[1]) =>
               LET later == store_get(store_remove(m, filters), batch[i].id)
               IN  later # Nothing /\ Returned(later) = Submitted(m, batch[i])

\* Both backends hold the document that was submitted with a list value and
\* a null value: the dense store as submitted, the managed one sanitized.
C22_Witness ==
  /\ store_get(_stores["docs"], "b") # Nothing
  /\ store_get(_stores["docs"], "b")[1].metadata = ListedDoc.metadata
  /\ store_get(_stores[ChromaCollection], "b") # Nothing
  /\ store_get(_stores[ChromaCollection], "b")[1].metadata =
       <<Entry("tag", StrV(<<"1", "2">>)), Entry("kind", StrV("x"))>>

---------------------------------------------------------------------------
\* rank_bm25.BM25Okapi (a dependency, not in src/): the score of a document
\* is the sum, over the query tokens that occur in it, of idf(token) times
\* a positive term-frequency factor; idf(token) = log(N - n + 0.5) -
\* log(n + 0.5) for a token in n of the N documents, a negative idf is
\* replaced by 0.25 times the average idf, and a token outside the corpus
\* contributes 0.  The model keeps the sign exactly and draws the magnitude
\* from 1..MaxBm25.

MaxBm25 == 2

Sign(n) == IF n > 0 THEN 1 ELSE IF n < 0 THEN -1 ELSE 0
Occurs(w, tokens) == \E i \in 1..Len(tokens) : tokens[i] = w
VocabularyOf(corpus) ==
  UNION {{corpus[i][j] : j \in 1..Len(corpus[i])} : i \in 1..Len(corpus)}
DocFreq(corpus, w) == Cardinality({i \in 1..Len(corpus) : Occurs(w, corpus[i])})

RECURSIVE IntProduct(_, _)
IntProduct(f, S) ==
  IF S = {} THEN 1 ELSE LET w == CHOOSE w \in S : TRUE IN f[w] * IntProduct(f, S \ {w})

\* The sign of the average idf: the sum of the logarithms of
\* (N - n + 0.5) / (n + 0.5) is positive exactly when the product of the
\* numerators exceeds the product of the denominators.
average_idf_sign(corpus) ==
  LET V == VocabularyOf(corpus)
      N == Len(corpus)
  IN  Sign(IntProduct([w \in V |-> 2 * (N - DocFreq(corpus, w)) + 1], V)
           - IntProduct([w \in V |-> 2 * DocFreq(corpus, w) + 1], V))

idf_sign(corpus, w) ==
  LET N == Len(corpus)
      n == DocFreq(corpus, w)
  IN  IF n = 0 THEN 0
      ELSE IF N - n < n THEN average_idf_sign(corpus)
      ELSE Sign(N - 2 * n)

\* The signs the score of document i can take: the common sign of its
\* terms, or any sign when terms of both signs are summed.
score_signs(corpus, tokenized_query, i) ==
  LET terms == {idf_sign(corpus, tokenized_query[j]) :
                  j \in {j \in 1..Len(tokenized_query) : Occurs(tokenized_query[j], corpus[i])}}
                 \ {0}
  IN  IF terms = {} THEN {0}
      ELSE IF terms = {1} THEN {1}
      ELSE IF terms = {-1} THEN {-1}
      ELSE {-1, 0, 1}

RECURSIVE score_vectors(_, _, _)
\* The score vectors of the documents from position i on, each score with
\* one of the signs its document allows.
score_vectors(corpus, tokenized_query, i) ==
  IF i > Len(corpus) THEN {<< >>}
  ELSE LET signs == score_signs(corpus, tokenized_query, i)
           rest == score_vectors(corpus, tokenized_query, i + 1)
       IN  {<<v>> \o r : v \in {v \in (-MaxBm25)..MaxBm25 : Sign(v) \in signs}, r \in rest}

\* bm25.get_scores(tokenized_query): one score per document; documents with
\* the same tokens have the same score.
get_scores(corpus, tokenized_query) ==
  {scores \in score_vectors(corpus, tokenized_query, 1) :
     \A i, j \in 1..Len(corpus) : corpus[i] = corpus[j] => scores[i] = scores[j]}

RECURSIVE keyword_loop(_, _, _, _, _, _)
\* search, lines 58-90: the loop over the candidates, left at top_k results.
keyword_loop(m, scored, max_score, filters, top_k, results) ==
  IF Len(scored) = 0 \/ Len(results) >= top_k THEN results
  ELSE keyword_loop(m, Tail(scored), max_score, filters, top_k,
                    keyword_iteration(m, Head(scored), max_score, filters, results))

\* A variant of keyword_results whose loop runs over every candidate.
keyword_results_unbounded(m, doc_pairs, scores, top_k, filters) ==
  keyword_loop(m, scored_docs(scores, doc_pairs),
               IF SeqMax(scores) > 0 THEN SeqMax(scores) ELSE 1, filters, top_k, << >>)

\* search, lines 47-92, once the model and the export are read.
keyword_results(m, doc_pairs, scores, top_k, filters) ==
  keyword_loop(m, Prefix(scored_docs(scores, doc_pairs), top_k * 3),
               IF SeqMax(scores) > 0 THEN SeqMax(scores) ELSE 1, filters, top_k, << >>)

---------------------------------------------------------------------------
\* SpecKw: keyword searches, each run to its end, on the collection "docs"
\* holding one of three corpora, and single-document deletions and metadata
\* updates through the routes (which drop the cached model).

ScenarioDocs ==
  <<[id |-> "a", text |-> <<"the", "cat", "sat">>, embedding |-> <<1, 0>>, metadata |-> << >>],
    [id |-> "b", text |-> <<"a", "dog", "ran">>, embedding |-> <<0, 1>>, metadata |-> << >>]>>
TaggedDocs ==
  <<[id |-> "a", text |-> <<"cat", "cat">>, embedding |-> <<1, 0>>,
     metadata |-> <<Entry("tag", IntV(1))>>],
    [id |-> "b", text |-> <<"dog">>, embedding |-> <<0, 1>>,
     metadata |-> <<Entry("tag", IntV(2))>>],
    [id |-> "c", text |-> <<"bird">>, embedding |-> <<0, 1>>,
     metadata |-> <<Entry("tag", IntV(2))>>]>>
FourDocs ==
  <<[id |-> "a", text |-> <<"cat">>, embedding |-> <<1, 0>>,
     metadata |-> <<Entry("tag", IntV(1))>>],
    [id |-> "b", text |-> <<"dog">>, embedding |-> <<0, 1>>,
     metadata |-> <<Entry("tag", IntV(1))>>],
    [id |-> "c", text |-> <<"bird">>, embedding |-> <<0, 1>>,
     metadata |-> <<Entry("tag", IntV(1))>>],
    [id |-> "d", text |-> <<"fish">>, embedding |-> <<1, 0>>,
     metadata |-> <<Entry("tag", IntV(2))>>]>>
KwCorpora == {ScenarioDocs, TaggedDocs, FourDocs}
KwQueries == {<<"cat">>, <<"cat", "dog">>, <<"the">>, <<"cat", "dog", "bird", "fish">>}
KwFilters == {<< >>, <<Entry("tag", IntV(2))>>}
KwDocIds == {"a", "b", "c", "d"}

KwSearched(query, top_k, filters, scores, results) ==
  [kind |-> "keyword", query |-> query, top_k |-> top_k, filters |-> filters,
   scores |-> scores, results |-> results]
KwNone == KwSearched(<< >>, 0, << >>, << >>, << >>)

InitKw ==
  /\ \E batch \in KwCorpora :
       LET added == add_documents(EmptyStore, NoFiles, batch)
       IN  /\ _stores = [c \in {ApiCollection} |-> added.store]
           /\ files = [c \in Collections |-> IF c = ApiCollection THEN added.files ELSE NoFiles]
  /\ Init!2
  /\ Init!3
  /\ Init!5
  /\ Init!6
  /\ Init!7
  /\ Init!8
  /\ Init!9
  /\ reqs = [r \in Requests |-> IF r = "r1" THEN KwNone ELSE IdleReq]
  /\ clock = 0
  /\ responded = 0

\* KeywordSearchEngine.search, lines 41-92: build_index when the collection
\* has no cached model (an empty export drops the cache entries and the
\* search returns []), then the scores and the loop.
KeywordSearch(query, top_k, filters) ==
  LET cached == ApiCollection \in DOMAIN _indices
      pairs == get_all_texts(TheStore)
      built == cached \/ Len(pairs) > 0
      data == IF cached THEN _doc_data[ApiCollection] ELSE [pairs |-> pairs, ver |-> clock]
      bm25 == IF cached THEN _indices[ApiCollection]
              ELSE [corpus |-> BM25Okapi(pairs), ver |-> clock]
  IN  /\ IF built
         THEN /\ _indices' = Put(_indices, ApiCollection, bm25)
              /\ _doc_data' = Put(_doc_data, ApiCollection, data)
              /\ \E scores \in get_scores(bm25.corpus, _tokenize(query)) :
                   SetReq("r1", KwSearched(query, top_k, filters, scores,
                            keyword_results(TheStore, data.pairs, scores, top_k, filters)))
         ELSE /\ _indices' = invalidate(_indices, ApiCollection)
              /\ _doc_data' = invalidate(_doc_data, ApiCollection)
              /\ SetReq("r1", KwSearched(query, top_k, filters, << >>, << >>))
      /\ UNCHANGED <<_stores, files, mgrVars, histVars, clock, responded>>

\* The route DELETE /{name}/documents/{doc_id}, lines 257-269: the
\* deletion, then the cached model dropped unless nothing was deleted.
DeleteDocumentRoute(doc_id) ==
  LET res == delete_documents(TheStore, files[ApiCollection], <<doc_id>>)
  IN  /\ res.count > 0
      /\ _stores' = [_stores EXCEPT ![ApiCollection] = res.store]
      /\ files' = [files EXCEPT ![ApiCollection] = res.files]
      /\ _indices' = invalidate(_indices, ApiCollection)
      /\ _doc_data' = invalidate(_doc_data, ApiCollection)
      /\ SetReq("r1", KwNone)
      /\ UNCHANGED <<mgrVars, histVars, clock, responded>>

\* The route PATCH /{name}/documents/{doc_id}, lines 229-254, for a request
\* with metadata and no text: the update, then the cached model dropped
\* unless the document is unknown.
UpdateDocumentRoute(doc_id, metadata) ==
  LET res == update_document(TheStore, files[ApiCollection], doc_id, Nothing, Nothing,
                             Some(validate_metadata(metadata)))
  IN  /\ res.result
      /\ _stores' = [_stores EXCEPT ![ApiCollection] = res.store]
      /\ files' = [files EXCEPT ![ApiCollection] = res.files]
      /\ _indices' = invalidate(_indices, ApiCollection)
      /\ _doc_data' = invalidate(_doc_data, ApiCollection)
      /\ SetReq("r1", KwNone)
      /\ UNCHANGED <<mgrVars, histVars, clock, responded>>

NextKw ==
  \/ \E query \in KwQueries, top_k \in 1..MaxTopK, filters \in KwFilters :
       KeywordSearch(query, top_k, filters)
  \/ \E doc_id \in KwDocIds : DeleteDocumentRoute(doc_id)
  \/ \E metadata \in Metadatas : UpdateDocumentRoute("a", metadata)

SpecKw == InitKw /\ [][NextKw]_vars

\* The ids of the k stored vectors nearest to q, in the index's order.
nearest_ids(m, q, k) ==
  LET hits == index_search(m.index, q, k) IN [i \in 1..k |-> m._idx_to_id[hits[i].idx]]
IdsInOrder(results) == [i \in 1..Len(results) |-> results[i].id]
ScenarioStore == add_documents(EmptyStore, NoFiles, ScenarioDocs).store

\* C23: in the collection holding a ("the cat sat", along the first axis) and
\* b ("a dog ran", along the second axis), the vector search for a query
\* nine parts along the first axis and one along the second, top_k = 2,
\* ranks [a, b], and the keyword search for "cat" returns exactly [a].
C23_ScenarioSearches ==
  TheStore = ScenarioStore =>
    /\ nearest_ids(TheStore, <<9, 1>>, 2) = <<"a", "b">>
    /\ (reqs["r1"].kind = "keyword" /\ reqs["r1"].query = <<"cat">>
          => IdsInOrder(reqs["r1"].results) = <<"a">>)

\* The vector half of C23 alone.
C23_VectorHalf ==
  TheStore = ScenarioStore => nearest_ids(TheStore, <<9, 1>>, 2) = <<"a", "b">>


\* C27: whenever a keyword search, with or without a filter, returns a
\* non-empty list, its first result has score exactly 1.0 (its BM25 score
\* equals the divisor) and every other result a score in (0, 1].
C27_FirstScoreIsOne ==
  LET results == reqs["r1"].results
  IN  (reqs["r1"].kind = "keyword" /\ Len(results) > 0) =>
        /\ results[1].score[1] = results[1].score[2]
        /\ \A i \in 1..Len(results) :
             0 < results[i].score[1] /\ results[i].score[1] <= results[i].score[2]

\* C27 restricted to the searches without a filter.
C27_Unfiltered ==
  LET results == reqs["r1"].results
  IN  (reqs["r1"].kind = "keyword" /\ Len(results) > 0 /\ Len(reqs["r1"].filters) = 0) =>
        /\ results[1].score[1] = results[1].score[2]
        /\ \A i \in 1..Len(results) :
             0 < results[i].score[1] /\ results[i].score[1] <= results[i].score[2]

---------------------------------------------------------------------------
\* Fusion of a vector result list and a keyword result list (hybrid_search).
\* Scores are in ten-thousandths (round(., 4) keeps four decimals), weights
\* in tenths, reciprocal-rank sums are fractions <<numerator, denominator>>.

RECURSIVE LongDiv(_, _, _)
\* The quotient and the remainder of p * 10^n by q, digit by digit.
LongDiv(p, q, n) ==
  IF n = 0 THEN [quot |-> p \div q, rem |-> p % q]
  ELSE LET prev == LongDiv(p, q, n - 1)
       IN  [quot |-> prev.quot * 10 + (prev.rem * 10) \div q, rem |-> (prev.rem * 10) % q]

\* A variant of round4 that drops the digits after the fourth.
round4_truncated(p, q) == LongDiv(p, q, 4).quot

\* round(p / q, 4) in ten-thousandths: the nearest, a half to the even one.
round4(p, q) ==
  LET d == LongDiv(p, q, 5)
      base == d.quot \div 10
      last == d.quot % 10
  IN  IF last > 5 \/ (last = 5 /\ (d.rem > 0 \/ base % 2 = 1)) THEN base + 1 ELSE base

RatAdd(x, y) == <<x[1] * y[2] + y[1] * x[2], x[2] * y[2]>>
RatLeq(x, y) == x[1] * y[2] <= y[1] * x[2]

\* all_docs: the records in insertion order; an assignment to a key that is
\* present keeps its position.
DocPos(all_docs, doc_id) ==
  IF \E i \in 1..Len(all_docs) : all_docs[i].id = doc_id
  THEN CHOOSE i \in 1..Len(all_docs) : all_docs[i].id = doc_id
  ELSE 0
PutDoc(all_docs, rec) ==
  IF DocPos(all_docs, rec.id) = 0 THEN Append(all_docs, rec)
  ELSE [all_docs EXCEPT ![DocPos(all_docs, rec.id)] = rec]

RECURSIVE vector_pass(_, _)
\* The loop over vec_results (lines 72-79 and 115-123).
vector_pass(vec_results, all_docs) ==
  IF Len(vec_results) = 0 THEN all_docs
  ELSE vector_pass(Tail(vec_results),
         PutDoc(all_docs, [id |-> Head(vec_results).id, score |-> Head(vec_results).score,
                           vector_score |-> Head(vec_results).score, keyword_score |-> 0]))

RECURSIVE keyword_pass(_, _)
\* The loop over kw_results (lines 81-94 and 125-139).
keyword_pass(kw_results, all_docs) ==
  IF Len(kw_results) = 0 THEN all_docs
  ELSE LET result == Head(kw_results)
           pos == DocPos(all_docs, result.id)
       IN  keyword_pass(Tail(kw_results),
             IF pos # 0 THEN [all_docs EXCEPT ![pos].keyword_score = result.score]
             ELSE Append(all_docs, [id |-> result.id, score |-> result.score,
                                    vector_score |-> 0, keyword_score |-> result.score]))

\* sorted(all_docs.values(), key=score, reverse=True).
sorted_reverse(all_docs) ==
  LET order == sort_reverse([i \in 1..Len(all_docs) |-> all_docs[i].score], 1..Len(all_docs))
  IN  [i \in 1..Len(all_docs) |-> all_docs[order[i]]]

RECURSIVE sort_ascending(_, _)
sort_ascending(scores, cands) ==
  IF cands = {} THEN << >>
  ELSE LET best == CHOOSE p \in cands : \A q \in cands :
                     scores[p] < scores[q] \/ (scores[p] = scores[q] /\ p <= q)
       IN  <<best>> \o sort_ascending(scores, cands \ {best})

\* A variant of _weighted_sum_fusion that sorts by ascending score.
_weighted_sum_fusion_ascending(vec_results, kw_results, vector_weight, keyword_weight) ==
  LET all_docs == keyword_pass(kw_results, vector_pass(vec_results, << >>))
      scored == [i \in 1..Len(all_docs) |->
                   [all_docs[i] EXCEPT !.score =
                      round4(vector_weight * all_docs[i].vector_score
                               + keyword_weight * all_docs[i].keyword_score, 100000)]]
      order == sort_ascending([i \in 1..Len(scored) |-> scored[i].score], 1..Len(scored))
  IN  [i \in 1..Len(scored) |-> scored[order[i]]]

\* _weighted_sum_fusion, lines 70-103.
_weighted_sum_fusion(vec_results, kw_results, vector_weight, keyword_weight) ==
  LET all_docs == keyword_pass(kw_results, vector_pass(vec_results, << >>))
      scored == [i \in 1..Len(all_docs) |->
                   [all_docs[i] EXCEPT !.score =
                      round4(vector_weight * all_docs[i].vector_score
                               + keyword_weight * all_docs[i].keyword_score, 100000)]]
  IN  sorted_reverse(scored)

RECURSIVE rank_sum(_, _, _, _)
\* The sum of 1.0 / (k + i + 1) over the positions i (from 0) at which
\* doc_id stands in results, from position i on.
rank_sum(results, doc_id, k, i) ==
  IF i >= Len(results) THEN <<0, 1>>
  ELSE LET rest == rank_sum(results, doc_id, k, i + 1)
       IN  IF results[i + 1].id = doc_id THEN RatAdd(<<1, k + i + 1>>, rest) ELSE rest

\* rrf_scores after both loops (lines 117 and 127).
rrf_scores(vec_results, kw_results, k) ==
  [doc_id \in {vec_results[i].id : i \in 1..Len(vec_results)}
                \cup {kw_results[i].id : i \in 1..Len(kw_results)} |->
     RatAdd(rank_sum(vec_results, doc_id, k, 0), rank_sum(kw_results, doc_id, k, 0))]

\* max(rrf_scores.values()), line 142.
max_rrf(scores) ==
  IF DOMAIN scores = {} THEN <<1, 1>>
  ELSE scores[CHOOSE d \in DOMAIN scores : \A e \in DOMAIN scores : RatLeq(scores[e], scores[d])]

\* _reciprocal_rank_fusion, lines 112-147.
_reciprocal_rank_fusion(vec_results, kw_results, k) ==
  LET all_docs == keyword_pass(kw_results, vector_pass(vec_results, << >>))
      scores == rrf_scores(vec_results, kw_results, k)
      top == max_rrf(scores)
      scored == [i \in 1..Len(all_docs) |->
                   [all_docs[i] EXCEPT !.score =
                      round4(scores[all_docs[i].id][1] * top[2],
                             scores[all_docs[i].id][2] * top[1])]]
  IN  sorted_reverse(scored)

---------------------------------------------------------------------------
\* Relative-score fusion (hybrid_search.py 150-208).  A normalized score is
\* a fraction <<numerator, denominator>>.

ListMin(results) ==
  CHOOSE x \in {results[i].score : i \in 1..Len(results)} :
    \A i \in 1..Len(results) : x <= results[i].score
ListMax(results) ==
  CHOOSE x \in {results[i].score : i \in 1..Len(results)} :
    \A i \in 1..Len(results) : results[i].score <= x

\* normalize_scores, lines 156-164: the value of "_normalized" for each
\* entry; range_s is 1.0 when all the scores are equal.  The scores being in
\* ten-thousandths, the range 1.0 is 10000.
normalize_scores(results) ==
  IF Len(results) = 0 THEN << >>
  ELSE LET min_s == ListMin(results)
           max_s == ListMax(results)
           range_s == IF max_s # min_s THEN max_s - min_s ELSE 10000
       IN  [i \in 1..Len(results) |-> <<results[i].score - min_s, range_s>>]

\* A variant of round4_tenths that drops the digits after the fourth.
round4_tenths_truncated(p, q) == LongDiv(p, q, 3).quot

\* round(p / (10 * q), 4) in ten-thousandths.
round4_tenths(p, q) ==
  LET d == LongDiv(p, q, 4)
      base == d.quot \div 10
      last == d.quot % 10
  IN  IF last > 5 \/ (last = 5 /\ (d.rem > 0 \/ base % 2 = 1)) THEN base + 1 ELSE base

RECURSIVE vector_norm_pass(_, _, _)
\* The loop over vec_results, lines 171-180.
vector_norm_pass(vec_results, norms, all_docs) ==
  IF Len(vec_results) = 0 THEN all_docs
  ELSE vector_norm_pass(Tail(vec_results), Tail(norms),
         PutDoc(all_docs, [id |-> Head(vec_results).id, score |-> Head(vec_results).score,
                           vector_score |-> Head(vec_results).score, keyword_score |-> 0,
                           _vec_norm |-> Head(norms), _kw_norm |-> <<0, 1>>]))

RECURSIVE keyword_norm_pass(_, _, _)
\* The loop over kw_results, lines 182-198.
keyword_norm_pass(kw_results, norms, all_docs) ==
  IF Len(kw_results) = 0 THEN all_docs
  ELSE LET result == Head(kw_results)
           pos == DocPos(all_docs, result.id)
       IN  keyword_norm_pass(Tail(kw_results), Tail(norms),
             IF pos # 0
             THEN [all_docs EXCEPT ![pos].keyword_score = result.score,
                                   ![pos]._kw_norm = Head(norms)]
             ELSE Append(all_docs, [id |-> result.id, score |-> result.score,
                                    vector_score |-> 0, keyword_score |-> result.score,
                                    _vec_norm |-> <<0, 1>>, _kw_norm |-> Head(norms)]))

\* _relative_score_fusion, lines 166-208; the two normalized scores are
\* popped from each record before the sort.
_relative_score_fusion(vec_results, kw_results, vector_weight, keyword_weight) ==
  LET all_docs == keyword_norm_pass(kw_results, normalize_scores(kw_results),
                    vector_norm_pass(vec_results, normalize_scores(vec_results), << >>))
      scored == [i \in 1..Len(all_docs) |->
                   [id |-> all_docs[i].id,
                    vector_score |-> all_docs[i].vector_score,
                    keyword_score |-> all_docs[i].keyword_score,
                    score |-> round4_tenths(
                      vector_weight * all_docs[i]._vec_norm[1] * all_docs[i]._kw_norm[2]
                        + keyword_weight * all_docs[i]._kw_norm[1] * all_docs[i]._vec_norm[2],
                      all_docs[i]._vec_norm[2] * all_docs[i]._kw_norm[2])]]
  IN  sorted_reverse(scored)

---------------------------------------------------------------------------
\* SpecFusion: one fusion call on a pair of result lists.  The lists are
\* ranked (distinct ids, scores not increasing) and have at most MaxRanked
\* entries, but for one pair of longer lists in which the documents "m" and
\* "x" stand at ranks 17 and 10 of the vector list and 5 and 11 of the
\* keyword list.

MaxRanked == 2
FusionIds == {"a", "b", "c"}
FusionScores == {2, 5000, 10000}
FusionWeights == {<<7, 3>>, <<5, 5>>, <<10, 0>>, <<10, 10>>}
Ranked(list) ==
  /\ \A i, j \in 1..Len(list) : i < j => list[i].id # list[j].id /\ list[i].score >= list[j].score
RankedLists ==
  {list \in UNION {[1..n -> [id : FusionIds, score : FusionScores]] : n \in 0..MaxRanked} :
     Ranked(list)}
DeepVectorIds ==
  <<"v1", "v2", "v3", "v4", "v5", "v6", "v7", "v8", "v9", "x", "v11", "v12", "v13", "v14",
    "v15", "v16", "m">>
DeepKeywordIds == <<"k1", "k2", "k3", "k4", "m", "k6", "k7", "k8", "k9", "k10", "x">>
DeepVector == [i \in 1..17 |-> [id |-> DeepVectorIds[i], score |-> 9000 - i]]
DeepKeyword == [i \in 1..11 |-> [id |-> DeepKeywordIds[i], score |-> 10001 - i]]
FusionInputs ==
  {[vec |-> v, kw |-> w, weights |-> g] : v \in RankedLists, w \in RankedLists,
                                          g \in FusionWeights}
    \cup {[vec |-> DeepVector, kw |-> DeepKeyword, weights |-> <<7, 3>>]}

Fused(kind, input, merged) == [kind |-> kind, input |-> input, merged |-> merged]

InitFusion ==
  /\ Init!1
  /\ Init!2
  /\ Init!3
  /\ Init!4
  /\ Init!5
  /\ Init!6
  /\ Init!7
  /\ Init!8
  /\ Init!9
  /\ \E input \in FusionInputs :
       reqs = [r \in Requests |-> IF r = "r1" THEN Fused("none", input, << >>) ELSE IdleReq]
  /\ clock = 0
  /\ responded = 0

\* hybrid_search, line 47.
WeightedSumFusion ==
  LET input == reqs["r1"].input
  IN  /\ reqs["r1"].kind = "none"
      /\ SetReq("r1", Fused("weighted_sum", input,
                            _weighted_sum_fusion(input.vec, input.kw,
                                                 input.weights[1], input.weights[2])))
      /\ UNCHANGED <<_stores, files, mgrVars, kwVars, histVars, clock, responded>>

\* hybrid_search, line 43.
ReciprocalRankFusion ==
  LET input == reqs["r1"].input
  IN  /\ reqs["r1"].kind = "none"
      /\ SetReq("r1", Fused("rrf", input, _reciprocal_rank_fusion(input.vec, input.kw, 60)))
      /\ UNCHANGED <<_stores, files, mgrVars, kwVars, histVars, clock, responded>>

\* hybrid_search, line 45.
RelativeScoreFusion ==
  LET input == reqs["r1"].input
  IN  /\ reqs["r1"].kind = "none"
      /\ SetReq("r1", Fused("relative_score", input,
                            _relative_score_fusion(input.vec, input.kw,
                                                   input.weights[1], input.weights[2])))
      /\ UNCHANGED <<_stores, files, mgrVars, kwVars, histVars, clock, responded>>

NextFusion == WeightedSumFusion \/ ReciprocalRankFusion \/ RelativeScoreFusion

SpecFusion == InitFusion /\ [][NextFusion]_vars

\* The reciprocal sums of the fused lists, and the documents with the
\* greatest one.
FusedSums == rrf_scores(reqs["r1"].input.vec, reqs["r1"].input.kw, 60)
HasMaxSum(doc_id) == \A e \in DOMAIN FusedSums : RatLeq(FusedSums[e], FusedSums[doc_id])

\* C24: every score of a reciprocal-rank fusion lies in [0, 1], and when the
\* merged list is not empty, a document with the greatest combined
\* reciprocal sum has score exactly 1.0 and such a document is first.
C24_RrfNormalized ==
  LET merged == reqs["r1"].merged
  IN  reqs["r1"].kind = "rrf" =>
        /\ \A i \in 1..Len(merged) : merged[i].score \in 0..10000
        /\ \A i \in 1..Len(merged) : HasMaxSum(merged[i].id) => merged[i].score = 10000
        /\ Len(merged) > 0 => HasMaxSum(merged[1].id)

\* C24 without its last part: the scores lie in [0, 1] and the documents
\* with the greatest sum have score 1.0.
C24_ScoresOnly ==
  LET merged == reqs["r1"].merged
  IN  reqs["r1"].kind = "rrf" =>
        /\ \A i \in 1..Len(merged) : merged[i].score \in 0..10000
        /\ \A i \in 1..Len(merged) : HasMaxSum(merged[i].id) => merged[i].score = 10000
        /\ Len(merged) > 0 => merged[1].score = 10000

\* C24 on the lists of at most MaxRanked entries.
C24_ShortLists ==
  Len(reqs["r1"].input.vec) <= MaxRanked => C24_RrfNormalized


\* C25: fusing a ranked list with itself by weighted sum, with weights that
\* sum to 1, returns the documents in the order of the list.
C25_SelfFusionKeepsOrder ==
  LET input == reqs["r1"].input
  IN  (/\ reqs["r1"].kind = "weighted_sum"
       /\ input.vec = input.kw
       /\ input.weights[1] + input.weights[2] = 10)
        => IdsInOrder(reqs["r1"].merged) = IdsInOrder(input.vec)

\* C25 witness: a list of two documents with different scores, fused with
\* itself under the weights 0.7 and 0.3.
C25_Witness ==
  LET input == reqs["r1"].input
  IN  /\ reqs["r1"].kind = "weighted_sum"
      /\ input.vec = input.kw
      /\ input.weights = <<7, 3>>
      /\ Len(input.vec) = 2
      /\ input.vec[1].score > input.vec[2].score
      /\ IdsInOrder(reqs["r1"].merged) = IdsInOrder(input.vec)

\* The score of doc_id in a result list, 0 when the list does not hold it.
SignalOf(list, doc_id) ==
  IF DocPos(list, doc_id) = 0 THEN 0 ELSE list[DocPos(list, doc_id)].score
\* The weighted sum of the two signals of doc_id, in hundred-thousandths.
WeightedSum(input, doc_id) ==
  input.weights[1] * SignalOf(input.vec, doc_id) + input.weights[2] * SignalOf(input.kw, doc_id)
OnePerUnionId(input, merged) ==
  /\ \A i, j \in 1..Len(merged) : i # j => merged[i].id # merged[j].id
  /\ {merged[i].id : i \in 1..Len(merged)}
       = {input.vec[i].id : i \in 1..Len(input.vec)} \cup {input.kw[i].id : i \in 1..Len(input.kw)}

\* C26 as stated: weighted-sum fusion returns exactly one record per id of
\* the union of the two lists, each with the score w_v * vector_score +
\* w_k * keyword_score, an absent signal counting 0.
C26_ExactWeightedSum ==
  LET input == reqs["r1"].input
      merged == reqs["r1"].merged
  IN  reqs["r1"].kind = "weighted_sum" =>
        /\ OnePerUnionId(input, merged)
        /\ \A i \in 1..Len(merged) : 10 * merged[i].score = WeightedSum(input, merged[i].id)

\* C26 amended: weighted-sum fusion returns exactly one record per id of the
\* union of the two lists, each with the score w_v * vector_score + w_k *
\* keyword_score rounded to the nearest ten-thousandth (within 0.00005 of
\* the sum), an absent signal counting 0.
C26_RoundedWeightedSum ==
  LET input == reqs["r1"].input
      merged == reqs["r1"].merged
  IN  reqs["r1"].kind = "weighted_sum" =>
        /\ OnePerUnionId(input, merged)
        /\ \A i \in 1..Len(merged) :
             /\ 10 * merged[i].score - 5 <= WeightedSum(input, merged[i].id)
             /\ WeightedSum(input, merged[i].id) <= 10 * merged[i].score + 5

\* C26 witness: a fusion of two lists with a document in the vector list
\* only, one in the keyword list only, and a sum that is not a multiple of
\* 0.0001.
C26_Witness ==
  LET input == reqs["r1"].input
      merged == reqs["r1"].merged
  IN  /\ reqs["r1"].kind = "weighted_sum"
      /\ \E i, j \in 1..Len(merged) :
           /\ DocPos(input.kw, merged[i].id) = 0
           /\ DocPos(input.vec, merged[j].id) = 0
           /\ WeightedSum(input, merged[i].id) % 10 # 0
           /\ 10 * merged[i].score - 5 <= WeightedSum(input, merged[i].id)
           /\ WeightedSum(input, merged[i].id) <= 10 * merged[i].score + 5

---------------------------------------------------------------------------
C28_IndexHoldsNothing ==
  \A c \in DOMAIN _stores :
    LET live == DocIdsOf(_stores[c]._documents)
    IN  (live # {} /\ live \subseteq orphaned[c]) => ntotal(_stores[c].index) = 0

---------------------------------------------------------------------------
\* What C29 says of one result list, with and without the distinctness of
\* the ids.
WithinLimits(m, res, k, flt, ms) ==
  /\ Len(res) <= k
  /\ \A i, j \in 1..Len(res) : i < j => res[i].score >= res[j].score
  /\ \A i \in 1..Len(res) :
       /\ HasDoc(m._documents, res[i].id)
       /\ res[i].score \in 0..2
       /\ ms # Nothing => res[i].score >= ms[1]
       /\ Len(flt) > 0 => _matches_filter(res[i].metadata, flt)
DistinctIds(res) == \A i, j \in 1..Len(res) : i # j => res[i].id # res[j].id

\* C29: every search of a Dense-Index store returns at most k results, in
\* descending order of score, each with a distinct live id, a score in
\* [0, 1] that is not below min_score, and metadata that satisfies the
\* filter.
C29_SearchResultsWellFormed ==
  \A c \in DOMAIN _stores :
    \A q \in QueryVectors, k \in 1..MaxTopK, flt \in Filters, ms \in MinScores :
      LET res == search(_stores[c], q, k, flt, ms)
      IN  WithinLimits(_stores[c], res, k, flt, ms) /\ DistinctIds(res)

\* C29 without the distinctness of the ids.
C29_AllButDistinct ==
  \A c \in DOMAIN _stores :
    \A q \in QueryVectors, k \in 1..MaxTopK, flt \in Filters, ms \in MinScores :
      WithinLimits(_stores[c], search(_stores[c], q, k, flt, ms), k, flt, ms)

---------------------------------------------------------------------------
\* C30: the matcher of the Dense-Index store and the matcher of the keyword
\* engine return the same boolean for every metadata mapping, list-valued
\* fields included, and every filter expression, keys that start with "$"
\* without being an operator and $contains included.
C30_MatchersAgree ==
  \A r \in Requests :
    Evaluated(r) => reqs[r].results["faiss"] = reqs[r].results["keyword"]

\* C30 on the filters without a top-level "$" key that is no compound and
\* the metadata without a list-valued field.
C30_CommonFragment ==
  \A r \in Requests :
    (/\ Evaluated(r)
     /\ reqs[r].args.filters \notin UnknownKeyExprs
     /\ ~DictHas(reqs[r].args.metadata, "tags"))
      => reqs[r].results["faiss"] = reqs[r].results["keyword"]

---------------------------------------------------------------------------
\* The normalized score of the highest-scored entry of a list.
TopNormalized(results) ==
  LET norms == normalize_scores(results)
      top == CHOOSE i \in 1..Len(results) : results[i].score = ListMax(results)
  IN  norms[top]
UnitFraction(x) == 0 <= x[1] /\ x[1] <= x[2]

\* C40: in relative-score fusion every normalized score lies in [0, 1], the
\* highest-scored entry of every non-empty input list, a list of one result
\* or of equal scores included, has normalized score 1, and a document that
\* is first in both lists has fused score w_v + w_k.
C40_TopNormalizedIsOne ==
  LET input == reqs["r1"].input
      merged == reqs["r1"].merged
  IN  reqs["r1"].kind = "relative_score" =>
        /\ \A list \in {input.vec, input.kw} :
             /\ \A i \in 1..Len(list) : UnitFraction(normalize_scores(list)[i])
             /\ Len(list) > 0 => TopNormalized(list)[1] = TopNormalized(list)[2]
        /\ \A i \in 1..Len(merged) :
             (/\ Len(input.vec) > 0 /\ Len(input.kw) > 0
              /\ input.vec[1].id = merged[i].id /\ input.kw[1].id = merged[i].id)
               => merged[i].score = 1000 * (input.weights[1] + input.weights[2])

\* C40 on the lists that hold two different scores.
C40_SpreadLists ==
  LET input == reqs["r1"].input
  IN  (/\ Len(input.vec) > 0 => ListMax(input.vec) # ListMin(input.vec)
       /\ Len(input.kw) > 0 => ListMax(input.kw) # ListMin(input.kw))
        => C40_TopNormalizedIsOne

---------------------------------------------------------------------------
\* The entries of the snapshot that stand before entry i when the snapshot
\* is sorted by descending score: a higher score, or the same score and an
\* earlier position.
AheadOf(scores, i) ==
  {j \in 1..Len(scores) : scores[j] > scores[i] \/ (scores[j] = scores[i] /\ j < i)}
SnapshotPos(doc_id) ==
  CHOOSE i \in 1..Len(_doc_data[ApiCollection].pairs) :
    _doc_data[ApiCollection].pairs[i][1] = doc_id

\* C32: a keyword search returns at most k results, each among the 3 * k
\* highest-scoring entries of the snapshot and with a positive score, in
\* descending order of score, with keyword_rank 1..n in output order and
\* with the metadata the store holds for the document, which satisfies the
\* filter.
C32_KeywordResultsBounded ==
  LET q == reqs["r1"]
      results == q.results
  IN  (q.kind = "keyword" /\ Len(results) > 0) =>
        /\ Len(results) <= q.top_k
        /\ \A i \in 1..Len(results) :
             /\ Cardinality(AheadOf(q.scores, SnapshotPos(results[i].id))) < 3 * q.top_k
             /\ q.scores[SnapshotPos(results[i].id)] > 0
             /\ results[i].score[1] = q.scores[SnapshotPos(results[i].id)]
             /\ results[i].keyword_rank = i
             /\ HasDoc(TheStore._documents, results[i].id)
             /\ results[i].metadata = DocAt(TheStore._documents, results[i].id).metadata
             /\ Len(q.filters) > 0 =>
                  KeywordSearchEngine_matches_filter(results[i].metadata, q.filters)
        /\ \A i, j \in 1..Len(results) : i < j => results[i].score[1] >= results[j].score[1]

\* C32 witness: four documents score, the search for one result examined
\* three of them, none of which passes the filter, and returned nothing
\* though the fourth passes it.
C32_Witness ==
  LET q == reqs["r1"]
  IN  /\ q.kind = "keyword"
      /\ q.top_k = 1
      /\ Len(q.scores) = 4
      /\ \A i \in 1..4 : q.scores[i] > 0
      /\ Len(q.filters) > 0
      /\ Len(q.results) = 0
      /\ \E d \in DocIdsOf(TheStore._documents) :
           KeywordSearchEngine_matches_filter(DocAt(TheStore._documents, d).metadata, q.filters)

\* C32 witness of a returned list: two results after an update of the
\* metadata of the first, which carries the new metadata.
C32_WitnessUpdated ==
  LET q == reqs["r1"]
  IN  /\ q.kind = "keyword"
      /\ Len(q.results) = 2
      /\ TheStore._documents # add_documents(EmptyStore, NoFiles, TaggedDocs).store._documents
      /\ DocIdsOf(TheStore._documents) = {"a", "b", "c"}
      /\ q.results[1].metadata = <<Entry("tag", IntV(2))>>
      /\ q.results[1].id = "a"

---------------------------------------------------------------------------
\* hybrid_search (hybrid_search.py 8-60) on the collection of SpecKw.

\* vector_search, lines 16-27: the store's search for the embedding of the
\* query; scores are converted from halves to ten-thousandths.
vector_search(m, query, top_k, filters, min_score) ==
  LET results == search(m, embed_texts(query), top_k, filters,
                        IF min_score = Nothing THEN Nothing
                        ELSE Some((min_score[1] + 4999) \div 5000))
  IN  [i \in 1..Len(results) |-> [id |-> results[i].id, score |-> results[i].score * 5000]]

\* The keyword results with their score round(score / max_score, 4)
\* (keyword_search.py 73).
normalized_results(results) ==
  [i \in 1..Len(results) |->
     [id |-> results[i].id, score |-> round4(results[i].score[1], results[i].score[2])]]

\* Lines 42-47.
fuse(fusion_method, vec_results, kw_results, vector_weight, keyword_weight) ==
  IF fusion_method = "rrf" THEN _reciprocal_rank_fusion(vec_results, kw_results, 60)
  ELSE IF fusion_method = "relative_score"
  THEN _relative_score_fusion(vec_results, kw_results, vector_weight, keyword_weight)
  ELSE _weighted_sum_fusion(vec_results, kw_results, vector_weight, keyword_weight)

\* A variant of hybrid_search that hands min_score to the vector search.
hybrid_search_early_min_score(m, kw_results, query, top_k, filters, min_score, w_v, w_k, fusion_method) ==
  LET vec_results == vector_search(m, query, top_k * 2, filters, min_score)
      merged == fuse(fusion_method, vec_results, kw_results, w_v, w_k)
      kept == IF min_score # Nothing
              THEN SelectSeq(merged, LAMBDA r : r.score >= min_score[1]) ELSE merged
  IN  [vec |-> vec_results, results |-> Prefix(kept, top_k)]

\* hybrid_search, lines 24-60, given what the keyword search returned:
\* the vector results and the returned list.
hybrid_search(m, kw_results, query, top_k, filters, min_score, w_v, w_k, fusion_method) ==
  LET vec_results == vector_search(m, query, top_k * 2, filters, Nothing)
      merged == fuse(fusion_method, vec_results, kw_results, w_v, w_k)
      kept == IF min_score # Nothing
              THEN SelectSeq(merged, LAMBDA r : r.score >= min_score[1]) ELSE merged
  IN  [vec |-> vec_results, results |-> Prefix(kept, top_k)]

HybridQueries == {<<"cat", "dog">>, <<"cat", "dog", "bird", "fish">>}
HybridMinScores == {Nothing, Some(6000)}
HybridWeights == {<<7, 3>>, <<5, 5>>}
FusionMethods == {"weighted_sum", "rrf", "relative_score"}

Hybrid(query, top_k, filters, min_score, weights, fusion_method, vec, kw, results) ==
  [kind |-> "hybrid", query |-> query, top_k |-> top_k, filters |-> filters,
   min_score |-> min_score, weights |-> weights, fusion_method |-> fusion_method,
   vec |-> vec, kw |-> kw, results |-> results]

\* The route's hybrid search, one request at a time: the vector search, the keyword search (with
\* its build_index) for top_k * 2 results, the fusion, min_score and the cut
\* at top_k.
HybridSearch(query, top_k, filters, min_score, weights, fusion_method) ==
  LET cached == ApiCollection \in DOMAIN _indices
      pairs == get_all_texts(TheStore)
      built == cached \/ Len(pairs) > 0
      data == IF cached THEN _doc_data[ApiCollection] ELSE [pairs |-> pairs, ver |-> clock]
      bm25 == IF cached THEN _indices[ApiCollection]
              ELSE [corpus |-> BM25Okapi(pairs), ver |-> clock]
  IN  /\ reqs["r1"].kind # "hybrid"
      /\ IF built
         THEN /\ _indices' = Put(_indices, ApiCollection, bm25)
              /\ _doc_data' = Put(_doc_data, ApiCollection, data)
              /\ \E scores \in get_scores(bm25.corpus, _tokenize(query)) :
                   LET kw == normalized_results(
                               keyword_results(TheStore, data.pairs, scores, top_k * 2, filters))
                       res == hybrid_search(TheStore, kw, query, top_k, filters, min_score,
                                            weights[1], weights[2], fusion_method)
                   IN  SetReq("r1", Hybrid(query, top_k, filters, min_score, weights,
                                           fusion_method, res.vec, kw, res.results))
         ELSE /\ _indices' = invalidate(_indices, ApiCollection)
              /\ _doc_data' = invalidate(_doc_data, ApiCollection)
              /\ LET res == hybrid_search(TheStore, << >>, query, top_k, filters, min_score,
                                          weights[1], weights[2], fusion_method)
                 IN  SetReq("r1", Hybrid(query, top_k, filters, min_score, weights,
                                         fusion_method, res.vec, << >>, res.results))
      /\ UNCHANGED <<_stores, files, mgrVars, histVars, clock, responded>>

\* The route returns the list; the next request can start.
HybridRespond ==
  /\ reqs["r1"].kind = "hybrid"
  /\ SetReq("r1", KwNone)
  /\ UNCHANGED <<_stores, files, mgrVars, kwVars, histVars, clock, responded>>

NextHybrid ==
  \/ HybridRespond
  \/ \E query \in HybridQueries, top_k \in 1..MaxTopK, filters \in KwFilters,
        min_score \in HybridMinScores, weights \in HybridWeights,
        fusion_method \in FusionMethods :
       HybridSearch(query, top_k, filters, min_score, weights, fusion_method)
  \/ \E doc_id \in KwDocIds : reqs["r1"].kind # "hybrid" /\ DeleteDocumentRoute(doc_id)
  \/ \E metadata \in Metadatas : reqs["r1"].kind # "hybrid" /\ UpdateDocumentRoute("a", metadata)

SpecHybrid == InitKw /\ [][NextHybrid]_vars

\* The place of a document in the insertion order of the merged map: its
\* place in the vector list, or after the vector list its place in the
\* keyword list.
InsertPos(vec, kw, doc_id) ==
  IF DocPos(vec, doc_id) # 0 THEN DocPos(vec, doc_id) ELSE Len(vec) + DocPos(kw, doc_id)

\* C31: for the three fusion methods, hybrid_search returns at most top_k
\* records in descending order of fused score, equal scores in the
\* insertion order of the merged map; every returned record has a fused
\* score of at least min_score, the vector list is searched without
\* min_score, and a fused document that reaches min_score is left out only
\* when top_k records are returned.
C31_HybridResults ==
  LET q == reqs["r1"]
      results == q.results
  IN  q.kind = "hybrid" =>
        LET full == fuse(q.fusion_method, q.vec, q.kw, q.weights[1], q.weights[2])
        IN  /\ Len(results) <= q.top_k
            /\ \A i, j \in 1..Len(results) : i < j =>
                 \/ results[i].score > results[j].score
                 \/ /\ results[i].score = results[j].score
                    /\ InsertPos(q.vec, q.kw, results[i].id) < InsertPos(q.vec, q.kw, results[j].id)
            /\ q.min_score # Nothing =>
                 \A i \in 1..Len(results) : results[i].score >= q.min_score[1]
            /\ q.vec = vector_search(TheStore, q.query, q.top_k * 2, q.filters, Nothing)
            /\ \A i \in 1..Len(full) :
                 (/\ q.min_score = Nothing \/ full[i].score >= q.min_score[1]
                  /\ DocPos(results, full[i].id) = 0)
                   => Len(results) = q.top_k

\* C31 witness: a returned record whose vector score is below min_score.
C31_Witness ==
  LET q == reqs["r1"]
  IN  /\ q.kind = "hybrid"
      /\ q.min_score # Nothing
      /\ \E i \in 1..Len(q.results) :
           /\ DocPos(q.vec, q.results[i].id) # 0
           /\ q.results[i].vector_score < q.min_score[1]
           /\ q.results[i].score >= q.min_score[1]

---------------------------------------------------------------------------
\* The outcome of the mapping's entries taken one by one.
EntryOutcomes(e, metadata, filters) ==
  {matches_outcome(e, metadata, <<filters[i]>>) : i \in 1..Len(filters)}

\* C36: a filter mapping with several top-level entries matches a document
\* exactly when every entry matches, whatever the order of the entries and
\* whether they are compound entries or field conditions.
C36_EveryEntryMustMatch ==
  \A r \in Requests, e \in Engines :
    LET metadata == reqs[r].args.metadata
        filters == reqs[r].args.filters
    IN  (/\ Evaluated(r)
         /\ Len(filters) >= 2
         /\ EntryOutcomes(e, metadata, filters) \subseteq {"True", "False"})
          => (reqs[r].results[e] = "True" <=> EntryOutcomes(e, metadata, filters) = {"True"})

\* C36 on the mappings whose entries are all field conditions.
C36_FieldEntriesOnly ==
  \A r \in Requests, e \in Engines :
    LET metadata == reqs[r].args.metadata
        filters == reqs[r].args.filters
    IN  (/\ Evaluated(r)
         /\ Len(filters) >= 2
         /\ \A i \in 1..Len(filters) : filters[i].key \notin DollarKeys
         /\ EntryOutcomes(e, metadata, filters) \subseteq {"True", "False"})
          => (reqs[r].results[e] = "True" <=> EntryOutcomes(e, metadata, filters) = {"True"})


---------------------------------------------------------------------------
\* The where clause handed to the managed collection (chroma_store.py 78-81,
\* 161-164, 139).  The collection belongs to the chromadb package; its
\* clause grammar is: one key per clause; "$and" / "$or" over a list of
\* clauses; otherwise a field with a literal or with a dict of exactly one of
\* the operators below.

WhereOps == {"$eq", "$ne", "$gt", "$gte", "$lt", "$lte", "$in", "$nin"}

RECURSIVE where_valid(_)
where_valid(where) ==
  /\ Len(where) = 1
  /\ LET key == where[1].key
         cond == where[1].val
     IN  IF key \in {"$and", "$or"}
         THEN \A j \in 1..Len(cond.v) : where_valid(cond.v[j].v)
         ELSE /\ key \notin DollarKeys
              /\ cond.t = "dict" => Len(cond.v) = 1 /\ cond.v[1].key \in WhereOps

\* What a query with the clause does for a record with the metadata: "Error"
\* when the collection rejects the clause, else whether the record is
\* selected.  None (the empty mapping here) is no clause: every record.
where_outcome(metadata, where) ==
  IF Len(where) = 0 THEN "True"
  ELSE IF ~where_valid(where) THEN "Error"
  ELSE IF Reference(metadata, where) THEN "True" ELSE "False"

\* C33: for every filter expression of the engine grammar, the where clause
\* built by the managed store selects exactly the records that
\* matches(metadata, filter) accepts.
C33_WhereSelectsWhatMatchesAccepts ==
  \A r \in Requests :
    LET metadata == reqs[r].args.metadata
        filters == reqs[r].args.filters
    IN  (/\ Evaluated(r)
         /\ Sanitized(metadata) = metadata
         /\ reqs[r].results["faiss"] \in {"True", "False"})
          => where_outcome(metadata, _build_where_filter(filters)) = reqs[r].results["faiss"]

\* The part of C33 that holds: mappings of field keys only, every operator
\* dict with one operator of the collection's grammar.
C33_FieldMappings ==
  \A r \in Requests :
    LET metadata == reqs[r].args.metadata
        filters == reqs[r].args.filters
    IN  (/\ Evaluated(r)
         /\ Sanitized(metadata) = metadata
         /\ reqs[r].results["faiss"] \in {"True", "False"}
         /\ \A i \in 1..Len(filters) :
              /\ filters[i].key \notin DollarKeys
              /\ filters[i].val.t = "dict" =>
                   Len(filters[i].val.v) = 1 /\ filters[i].val.v[1].key \in WhereOps)
          => where_outcome(metadata, _build_where_filter(filters)) = reqs[r].results["faiss"]

\* The shapes named by C33: one literal field becomes {field: {"$eq": value}},
\* several field keys become one "$and" with a clause per key.
C33_Shapes ==
  \A r \in Requests :
    LET filters == reqs[r].args.filters
        where == _build_where_filter(filters)
    IN  (Evaluated(r) /\ Len(filters) > 0 /\ \A i \in 1..Len(filters) : filters[i].key \notin DollarKeys)
          => IF Len(filters) = 1
             THEN where = IF filters[1].val.t = "dict" THEN filters
                          ELSE FieldOp(filters[1].key, "$eq", filters[1].val)
             ELSE /\ Len(where) = 1 /\ where[1].key = "$and"
                  /\ Len(where[1].val.v) = Len(filters)


---------------------------------------------------------------------------
\* Re-creation of a collection (checked under SpecMgr).

\* The step is create_collection(name) for a name that is new or was deleted:
\* the name has no store and is not in the registry, and its directory is
\* absent or holds the mapping file that delete_collection's clear() wrote.
Creates(name) ==
  /\ name \notin DOMAIN _stores
  /\ name \notin RegistryNames
  /\ files[name].metadata_json \in {Nothing, persist(EmptyStore, files[name]).metadata_json}
  /\ name \in DOMAIN _stores'

\* C34: a Dense-Index collection created under any name, a name that was
\* used and deleted before (in this process or before a restart) included,
\* starts empty: count() is 0 and the similarity index holds no vector.
C34_CreatedCollectionIsFresh ==
  [][\A name \in Collections :
       Creates(name) => /\ Len(_stores'[name]._documents) = 0
                        /\ ntotal(_stores'[name].index) = 0]_vars

\* The part of C34 that holds: the created collection's count() is 0 and its
\* id <-> slot mapping is empty with next slot 0.
C34_CreatedCollectionCountsZero ==
  [][\A name \in Collections :
       Creates(name) => /\ Len(_stores'[name]._documents) = 0
                        /\ _stores'[name]._id_to_idx = EmptyDict
                        /\ _stores'[name]._idx_to_id = EmptyDict
                        /\ _stores'[name]._next_idx = 0]_vars


---------------------------------------------------------------------------
\* delete_documents with ids that are not live (checked under Spec).

LiveIds(ids, m) == {ids[i] : i \in 1..Len(ids)} \cap DocIdsOf(m._documents)

\* C35: in every reachable Dense-Index store, delete_documents with a list
\* that holds no live id (empty, unknown ids, ids deleted before) returns 0
\* and leaves the document table, both slot mappings, the next slot, the
\* index and the two files as they were; with any list it returns the number
\* of distinct live ids of the list, an id listed twice counting once.
C35_DeleteOfNoLiveId ==
  \A c \in DOMAIN _stores, ids \in IdLists :
    LET r == delete_documents(_stores[c], files[c], ids)
    IN  /\ r.count = Cardinality(LiveIds(ids, _stores[c]))
        /\ LiveIds(ids, _stores[c]) = {} =>
             /\ r.count = 0
             /\ r.store = _stores[c]
             /\ r.files = files[c]

\* C35 witness: document "a" is live with its vector in the index, "b" was
\* deleted before and the index file is on disk; deleting <<"b", "b">>
\* returns 0 and deleting <<"a", "a">> returns 1.
C35_Witness ==
  /\ "docs" \in DOMAIN _stores
  /\ HasDoc(_stores["docs"]._documents, "a")
  /\ ~HasDoc(_stores["docs"]._documents, "b")
  /\ "b" \in deleted["docs"]
  /\ ntotal(_stores["docs"].index) > 0
  /\ "a" \in DOMAIN _stores["docs"]._id_to_idx
  /\ files["docs"].index_faiss # Nothing
  /\ delete_documents(_stores["docs"], files["docs"], <<"b", "b">>).count = 0
  /\ delete_documents(_stores["docs"], files["docs"], <<"a", "a">>).count = 1


---------------------------------------------------------------------------
\* The ingest route run to its end on a Dense-Index store (checked under Spec).

\* ingest_documents(name, body): the duplicate check of every document
\* against the store, then one add_documents of the accepted ones; errors is
\* the length of the response's error list.
ingest_documents(m, f, documents, on_conflict) ==
  LET docs == accepted(m, documents, on_conflict)
      existing == Len(documents) - Len(docs)
      r == IF Len(docs) = 0 THEN [store |-> m, files |-> f] ELSE add_documents(m, f, docs)
  IN  [store |-> r.store, files |-> r.files,
       ingested |-> Len(docs),
       skipped |-> IF on_conflict = "skip" THEN existing ELSE 0,
       errors |-> IF on_conflict = "error" THEN existing ELSE 0]

\* Request bodies of one or two documents, the same id twice included.
IngestBodies ==
  {<<d>> : d \in {ApiDocA, ApiDocB}} \cup {<<d, e>> : d, e \in {ApiDocA, ApiDocB}}

\* Every document of the store before is in the store after, unchanged.
KeepsDocuments(before, after) ==
  \A i \in 1..Len(before._documents) :
    get_document(after, before._documents[i].id) = Some(before._documents[i])

\* C37: under on_conflict "error" or "skip", for every request body, a body
\* that repeats an id included: the documents that were in the store keep
\* text and metadata, ingested + skipped + errors is the number of documents
\* submitted, and count() grows by the reported ingested number.
C37_IngestAccounting ==
  \A c \in DOMAIN _stores, documents \in IngestBodies, on_conflict \in {"error", "skip"} :
    LET r == ingest_documents(_stores[c], files[c], documents, on_conflict)
    IN  /\ KeepsDocuments(_stores[c], r.store)
        /\ r.ingested + r.skipped + r.errors = Len(documents)
        /\ count(r.store) = count(_stores[c]) + r.ingested

\* The part of C37 that holds: the same for bodies whose ids are distinct,
\* and, for every body, the first two conjuncts.
C37_DistinctIds ==
  \A c \in DOMAIN _stores, documents \in IngestBodies, on_conflict \in {"error", "skip"} :
    LET r == ingest_documents(_stores[c], files[c], documents, on_conflict)
    IN  /\ KeepsDocuments(_stores[c], r.store)
        /\ r.ingested + r.skipped + r.errors = Len(documents)
        /\ (\A i, j \in 1..Len(documents) : documents[i].id = documents[j].id => i = j)
             => count(r.store) = count(_stores[c]) + r.ingested


---------------------------------------------------------------------------
\* SpecDim: the dimension of Dense-Index collections across restarts.  A
\* store is the record [dimension, index, _documents] with the index given
\* by its dimension d and its number of vectors; the mapping file keeps the
\* ids, the registry entry the embedding model.  supplied[c] is the dimension
\* that create_collection was given for c (history).

\* embedding_manager.get_dimension(model_name): the output size of the
\* sentence-transformers model; the last two names are not in the table of
\* _get_dimension_for_model.
EmbeddingModels ==
  {"all-MiniLM-L6-v2", "all-mpnet-base-v2", "paraphrase-MiniLM-L3-v2", "all-distilroberta-v1"}
get_dimension(model_name) ==
  IF model_name \in {"all-mpnet-base-v2", "all-distilroberta-v1"} THEN 768 ELSE 384

\* StoreManager._get_dimension_for_model: the built-in table, 384 otherwise.
_get_dimension_for_model(model_name) ==
  IF model_name \in {"all-MiniLM-L6-v2", "all-MiniLM-L12-v2", "paraphrase-MiniLM-L6-v2",
                     "multi-qa-MiniLM-L6-cos-v1"} THEN 384
  ELSE IF model_name = "all-mpnet-base-v2" THEN 768
  ELSE 384

\* __init__(name, directory, dimension): self.dimension, a fresh index of
\* that dimension, then _load_from_disk, which takes the document table from
\* metadata.json and the index from index.faiss and never reads the saved
\* dimension.
DimStore(dimension, f) ==
  [dimension |-> dimension,
   index |-> IF f.metadata_json # Nothing /\ f.index_faiss # Nothing THEN f.index_faiss[1]
             ELSE [d |-> dimension, ntotal |-> 0],
   _documents |-> IF f.metadata_json # Nothing THEN f.metadata_json[1].documents ELSE {}]

DimPersist(m, f) ==
  [index_faiss |-> IF m.index.ntotal > 0 THEN Some(m.index) ELSE f.index_faiss,
   metadata_json |-> Some([documents |-> m._documents, dimension |-> m.dimension])]

ModelOf(c) == _meta[CHOOSE i \in 1..Len(_meta) : _meta[i].name = c].embedding_model

InitDim ==
  /\ _stores = EmptyDict
  /\ _meta = << >>
  /\ registry = Nothing
  /\ files = [c \in Collections |-> NoFiles]
  /\ _indices = EmptyDict
  /\ _doc_data = EmptyDict
  /\ supplied = [c \in Collections |-> 0]
  /\ deleted = [c \in Collections |-> {}]
  /\ orphaned = [c \in Collections |-> {}]
  /\ reqs = [r \in Requests |-> IdleReq]
  /\ clock = 0
  /\ responded = 0

\* POST /collections: the dimension comes from the embedding manager, the
\* store is built with it and the model name goes to the registry.
DimCreateCollection(name, embedding_model) ==
  /\ name \notin DOMAIN _stores
  /\ _stores' = Put(_stores, name, DimStore(get_dimension(embedding_model), files[name]))
  /\ _meta' = Append(_meta, [name |-> name, embedding_model |-> embedding_model])
  /\ registry' = Some(_meta')
  /\ supplied' = [supplied EXCEPT ![name] = get_dimension(embedding_model)]
  /\ UNCHANGED <<apiVars, files, kwVars, deleted, orphaned>>

\* Ingest of one document: its text is embedded with the collection's model
\* and index.add takes the vector only if its length is the index's, raising
\* otherwise (the store is then as it was).
DimAddDocuments(c, doc_id) ==
  /\ c \in DOMAIN _stores
  /\ _stores[c].index.ntotal < MaxVectors
  /\ get_dimension(ModelOf(c)) = _stores[c].index.d
  /\ LET m == [_stores[c] EXCEPT !.index.ntotal = @ + 1, !._documents = @ \cup {doc_id}]
     IN  /\ _stores' = [_stores EXCEPT ![c] = m]
         /\ files' = [files EXCEPT ![c] = DimPersist(m, files[c])]
  /\ UNCHANGED <<apiVars, mgrVars, kwVars, histVars>>

\* delete_documents([doc_id]) of a live id: _rebuild_index makes a fresh
\* index of self.dimension, then persist.
DimDeleteDocuments(c, doc_id) ==
  /\ c \in DOMAIN _stores
  /\ doc_id \in _stores[c]._documents
  /\ LET m == [_stores[c] EXCEPT !.index = [d |-> _stores[c].dimension, ntotal |-> 0],
                                 !._documents = @ \ {doc_id}]
     IN  /\ _stores' = [_stores EXCEPT ![c] = m]
         /\ files' = [files EXCEPT ![c] = DimPersist(m, files[c])]
  /\ UNCHANGED <<apiVars, mgrVars, kwVars, histVars>>

\* A restart: load_all builds every store of the registry with the dimension
\* of _get_dimension_for_model(entry's embedding model).
DimLoadAll ==
  /\ registry # Nothing
  /\ _stores' = [c \in MetaNames(registry[1]) |->
                   LET entry == registry[1][CHOOSE i \in 1..Len(registry[1]) : registry[1][i].name = c]
                   IN  DimStore(_get_dimension_for_model(entry.embedding_model), files[c])]
  /\ _meta' = registry[1]
  /\ UNCHANGED <<apiVars, registry, files, kwVars, histVars>>

NextDim ==
  \/ \E name \in Collections, embedding_model \in EmbeddingModels :
       DimCreateCollection(name, embedding_model)
  \/ \E c \in Collections, doc_id \in DocIds : DimAddDocuments(c, doc_id)
  \/ \E c \in Collections, doc_id \in DocIds : DimDeleteDocuments(c, doc_id)
  \/ DimLoadAll

SpecDim == InitDim /\ [][NextDim]_vars

\* C38: every live Dense-Index store, a store rebuilt by load_all included,
\* has the dimension that create_collection was given, whatever the
\* embedding model's name, and so does its index, also when it was rebuilt
\* by a deletion after the restart.
C38_DimensionSurvivesRestart ==
  \A c \in DOMAIN _stores :
    /\ _stores[c].dimension = supplied[c]
    /\ _stores[c].index.d = supplied[c]

\* The part of C38 that holds: collections whose model is in the built-in
\* table, and collections of 384-dimensional models.
C38_TableModels ==
  \A c \in DOMAIN _stores :
    (ModelOf(c) \in {"all-MiniLM-L6-v2", "all-mpnet-base-v2"} \/ supplied[c] = 384) =>
      /\ _stores[c].dimension = supplied[c]
      /\ _stores[c].index.d = supplied[c]


---------------------------------------------------------------------------
\* The keyword search against a concurrent invalidate (checked under SpecApi).

\* C39: a keyword search that runs while a document route invalidates the
\* cache never fails: its reads of the cached model (line 44) and of the
\* cached snapshot (line 45) find their entry, and the model it scores with
\* was built from the snapshot it pairs the scores with.
C39_SearchSurvivesInvalidate ==
  [][\A r \in Requests :
       /\ (reqs[r].pc = "kw_read_index" /\ reqs'[r].pc # "kw_read_index")
            => reqs'[r].pc = "kw_read_data"
       /\ (reqs[r].pc = "kw_read_data" /\ reqs'[r].pc # "kw_read_data")
            => /\ reqs'[r].pc = "kw_score"
               /\ reqs'[r].bm25.corpus = BM25Okapi(reqs'[r].doc_pairs.pairs)]_vars

\* The part of C39 that holds with one search in flight: a search that gets
\* both reads scores with the model of the snapshot it read.
C39_PairedWhenRead ==
  \A r \in Requests :
    reqs[r].pc = "kw_score" => reqs[r].bm25.corpus = BM25Okapi(reqs[r].doc_pairs.pairs)

=============================================================================
